---- MODULE Spec2Model ----
(***************************************************************************)
(* A model of the base-agent runtime: the agent execution loop             *)
(* (agent.rs), the provider router (llm/router.rs), the key rotator        *)
(* (llm/rotation.rs), the tool registry (tools/registry.rs), the task      *)
(* store (task/store.rs) and the /execute handler (api/handlers.rs).       *)
(*                                                                         *)
(* Rust's Option<T> is a sequence of length 0 or 1, Result<T, E> a record  *)
(* with an ok flag.  f64 temperatures are counted in tenths.               *)
(***************************************************************************)
EXTENDS Integers, Sequences, FiniteSets, TLC

\* ------------------------------------------------------------ bounds
\* largest max_iterations handed to Agent::new
MaxIter == 2
\* most tool calls in one completion
MaxCalls == 2
\* leading iterations whose completion is drawn from the full outcome set
MaxVaried == 1
\* concurrent /execute requests
NumRequests == 2
\* threads sharing one Rotator
NumCallers == 2
\* most credentials a Rotator holds
MaxKeys == 2
\* next() calls one thread makes
MaxNextCalls == 2
\* the calls a caller makes to LLMRouter::complete
MaxRouteCalls == 2
\* the calls a caller makes to GeminiAdapter::complete
MaxCompletes == 2
\* the tasks created through TaskStore::create by the stores' own callers
MaxTasks == 2
\* the TaskStore::update calls they make
MaxUpdates == 2
\* the latest reading of the clock
MaxClock == 1

\* ------------------------------------------------------------ Option
None == <<>>
Some(v) == <<v>>
IsSome(o) == o # <<>>
Unwrap(o) == o[1]
UnwrapOr(o, d) == IF o # <<>> THEN o[1] ELSE d

EmptyMap == [k \in {} |-> k]

\* ------------------------------------------------------------ config.rs
DefaultProvider == "gemini"
DefaultModel == "gemini-3-flash-preview"
DefaultMaxIterations == 10
\* 0.3, in tenths
DefaultTemperature == 3
DefaultPrompt == "You are a helpful assistant."

\* ------------------------------------------------------------ tools
\* The handlers a caller may register: opaque Fn(Value) -> Result<Value, String>.
\* "echo" returns its argument, "twice" doubles it, "fail" reports a reason.
Handlers == {"echo", "twice", "fail"}

CallHandler(h, args) ==
    CASE h = "echo" -> [ok |-> TRUE, val |-> args, err |-> ""]
      [] h = "twice" -> [ok |-> TRUE, val |-> 2 * args, err |-> ""]
      [] OTHER -> [ok |-> FALSE, val |-> 0, err |-> "bad input"]

RegOk == [ok |-> TRUE, err |-> ""]
RegErr(e) == [ok |-> FALSE, err |-> e]

\* A faulty variant of ToolRegistry_register: the presence check comes before the
\* schema-name check.
ToolRegistry_register_presence_first(map, name, handler, schema) ==
    IF name = "" THEN [res |-> RegErr("invalid tool"), map |-> map]
    ELSE IF name \in DOMAIN map
         THEN [res |-> RegErr("tool already registered"), map |-> map]
    ELSE LET s == IF schema.name = "" THEN [schema EXCEPT !.name = name] ELSE schema
         IN  IF s.name # name
             THEN [res |-> RegErr("schema name mismatch"), map |-> map]
             ELSE [res |-> RegOk,
                   map |-> [n \in DOMAIN map \cup {name} |->
                              IF n = name
                              THEN [name |-> name, handler |-> handler, schema |-> s]
                              ELSE map[n]]]

\* A faulty variant of ToolRegistry_register: HashMap::insert without the
\* contains_key check, so a second registration replaces the entry.
ToolRegistry_register_overwrite(map, name, handler, schema) ==
    IF name = "" THEN [res |-> RegErr("invalid tool"), map |-> map]
    ELSE LET s == IF schema.name = "" THEN [schema EXCEPT !.name = name] ELSE schema
         IN  IF s.name # name
             THEN [res |-> RegErr("schema name mismatch"), map |-> map]
             ELSE [res |-> IF name \in DOMAIN map
                           THEN RegErr("tool already registered") ELSE RegOk,
                   map |-> [n \in DOMAIN map \cup {name} |->
                              IF n = name
                              THEN [name |-> name, handler |-> handler, schema |-> s]
                              ELSE map[n]]]

\* A faulty variant of ToolRegistry_register: the schema is stored as it was
\* passed, its name neither filled in nor compared with the tool's.
ToolRegistry_register_unchecked_schema(map, name, handler, schema) ==
    IF name = "" THEN [res |-> RegErr("invalid tool"), map |-> map]
    ELSE IF name \in DOMAIN map
         THEN [res |-> RegErr("tool already registered"), map |-> map]
         ELSE [res |-> RegOk,
               map |-> [n \in DOMAIN map \cup {name} |->
                          IF n = name
                          THEN [name |-> name, handler |-> handler, schema |-> schema]
                          ELSE map[n]]]

\* ToolRegistry::register: the result and the map after the call.
ToolRegistry_register(map, name, handler, schema) ==
    IF name = "" THEN [res |-> RegErr("invalid tool"), map |-> map]
    ELSE LET s == IF schema.name = "" THEN [schema EXCEPT !.name = name] ELSE schema
         IN  IF s.name # name
             THEN [res |-> RegErr("schema name mismatch"), map |-> map]
             ELSE IF name \in DOMAIN map
                  THEN [res |-> RegErr("tool already registered"), map |-> map]
                  ELSE [res |-> RegOk,
                        map |-> [n \in DOMAIN map \cup {name} |->
                                   IF n = name
                                   THEN [name |-> name, handler |-> handler, schema |-> s]
                                   ELSE map[n]]]

\* A faulty variant of ToolRegistry_execute: the reason a handler reports is
\* replaced by a fixed text.
ToolRegistry_execute_masks_reason(map, name, args) ==
    IF name \notin DOMAIN map
    THEN [success |-> FALSE, output |-> None, error |-> Some("tool not found")]
    ELSE LET r == CallHandler(map[name].handler, args)
         IN  IF r.ok
             THEN [success |-> TRUE, output |-> Some(r.val), error |-> None]
             ELSE [success |-> FALSE, output |-> None, error |-> Some("tool failed")]

\* ToolRegistry::execute: a ToolResult, never a fault.
ToolRegistry_execute(map, name, args) ==
    IF name \notin DOMAIN map
    THEN [success |-> FALSE, output |-> None, error |-> Some("tool not found")]
    ELSE LET r == CallHandler(map[name].handler, args)
         IN  IF r.ok
             THEN [success |-> TRUE, output |-> Some(r.val), error |-> None]
             ELSE [success |-> FALSE, output |-> None, error |-> Some(r.err)]

\* ToolRegistry::execute, lines 57-68: the handlers the call invokes: the
\* entry's, and none when the name has no entry.
ToolRegistry_execute_invoked(map, name) ==
    IF name \notin DOMAIN map THEN <<>> ELSE <<map[name].handler>>

\* ToolRegistry::get_schemas: the schemas of the entries (HashMap order is
\* unspecified, so the collection is a set).
ToolRegistry_get_schemas(map) == {map[n].schema : n \in DOMAIN map}

ToolRegistry_has(map, name) == name \in DOMAIN map

ToolRegistry_count(map) == Cardinality(DOMAIN map)

\* ------------------------------------------------------------ task store
Task(id, instruction, status, output, error, created_at, completed_at) ==
    [id |-> id, instruction |-> instruction, status |-> status, output |-> output,
     error |-> error, created_at |-> created_at, completed_at |-> completed_at]

\* A faulty variant of next_id: the id is made of the clock alone.
next_id_without_count(millis, count) == "task_" \o ToString(millis)

\* next_id: "task_{millis}_{count}", count drawn from the process-wide COUNTER.
next_id(millis, count) == "task_" \o ToString(millis) \o "_" \o ToString(count)

\* TaskStore::create: the map after inserting a Pending task under id.
TaskStore_create(map, id, instruction, time) ==
    [n \in DOMAIN map \cup {id} |->
        IF n = id THEN Task(id, instruction, "Pending", None, None, time, None)
        ELSE map[n]]

\* A faulty variant of TaskStore_update: an unknown id is given a new task.
TaskStore_update_upsert(map, id, status, output, error, time) ==
    [n \in DOMAIN map \cup {id} |->
        IF n # id THEN map[n]
        ELSE Task(id, "", status, output, error, time,
                  IF status \in {"Completed", "Failed"} THEN Some(time) ELSE None)]

\* A faulty variant of TaskStore_update: completed_at is stamped by every update.
TaskStore_update_always_stamps(map, id, status, output, error, time) ==
    IF id \notin DOMAIN map THEN map
    ELSE [map EXCEPT ![id] =
            [@ EXCEPT !.status = status,
                      !.output = IF IsSome(output) THEN output ELSE @,
                      !.error = IF IsSome(error) THEN error ELSE @,
                      !.completed_at = Some(time)]]

\* A faulty variant of TaskStore_update: output and error are assigned as given,
\* so an update without them clears what was there.
TaskStore_update_clears(map, id, status, output, error, time) ==
    IF id \notin DOMAIN map THEN map
    ELSE [map EXCEPT ![id] =
            [@ EXCEPT !.status = status,
                      !.output = output,
                      !.error = error,
                      !.completed_at = IF status \in {"Completed", "Failed"}
                                       THEN Some(time) ELSE @]]

\* TaskStore::update: the map after the update (unchanged for an unknown id).
TaskStore_update(map, id, status, output, error, time) ==
    IF id \notin DOMAIN map THEN map
    ELSE [map EXCEPT ![id] =
            [@ EXCEPT !.status = status,
                      !.output = IF IsSome(output) THEN output ELSE @,
                      !.error = IF IsSome(error) THEN error ELSE @,
                      !.completed_at = IF status \in {"Completed", "Failed"}
                                       THEN Some(time) ELSE @]]

\* TaskStore::update, lines 52-69: what the call returns, the task as updated
\* or None for an unknown id.
TaskStore_update_result(map, id, status, output, error, time) ==
    IF id \notin DOMAIN map THEN None
    ELSE Some(TaskStore_update(map, id, status, output, error, time)[id])

\* The orders in which the values of a HashMap may be iterated.
Orders(map) ==
    {q \in [1 .. Cardinality(DOMAIN map) -> DOMAIN map] :
        \A i, j \in DOMAIN q : i # j => q[i] # q[j]}

\* A faulty variant of TaskStore_list: the sort is oldest first.
TaskStore_list_oldest_first(map, limit) ==
    {[i \in 1 .. (IF Len(q) > limit THEN limit ELSE Len(q)) |-> map[q[i]]] :
        q \in {o \in Orders(map) :
                  \A i \in 1 .. Len(o) - 1 :
                      map[o[i]].created_at <= map[o[i + 1]].created_at}}

\* TaskStore::list: the values sorted by created_at, newest first, and cut to
\* limit; tasks created at the same instant keep the order the map gave them,
\* so the call may return any of these sequences.
TaskStore_list(map, limit) ==
    {[i \in 1 .. (IF Len(q) > limit THEN limit ELSE Len(q)) |-> map[q[i]]] :
        q \in {o \in Orders(map) :
                  \A i \in 1 .. Len(o) - 1 :
                      map[o[i]].created_at >= map[o[i + 1]].created_at}}

\* A faulty variant of FetchAdd: the counter is read and not advanced.
FetchAdd_stuck(counter) == counter

\* next_id, line 115: COUNTER.fetch_add(1, SeqCst): the counter after the call
\* (the call returns the counter before it).
FetchAdd(counter) == counter + 1

\* ------------------------------------------------------------ llm
Message(role, content) == [role |-> role, content |-> content]

ProviderError(code, message, retryable) ==
    [code |-> code, message |-> message, retryable |-> retryable]

NoError == ProviderError("", "", FALSE)

\* Result<LLMResponse, ProviderError>
OkResponse(content, tool_calls) ==
    [ok |-> TRUE, content |-> content, tool_calls |-> tool_calls, err |-> NoError]
ErrResponse(e) == [ok |-> FALSE, content |-> "", tool_calls |-> <<>>, err |-> e]

GEMINI_ALLOWED_MODELS == {"gemini-3-flash-preview", "gemini-3-pro-preview"}

\* GeminiAdapter::complete: the allow-list check, then the outcome `net` of the
\* attempts over the wire.
GeminiAdapter_complete(adapter, request, net) ==
    LET model == UnwrapOr(request.model, adapter.model)
    IN  IF model \notin GEMINI_ALLOWED_MODELS
        THEN ErrResponse(ProviderError("invalid_model", "model not allowed: " \o model, FALSE))
        ELSE net

CodexAdapter_complete ==
    ErrResponse(ProviderError("not_implemented", "codex adapter not implemented", FALSE))

OpusAdapter_complete ==
    ErrResponse(ProviderError("not_implemented", "opus adapter not implemented", FALSE))

\* A faulty variant of LLMRouter_complete: the provider a request names is not
\* looked at; every request goes to the default provider.
LLMRouter_complete_default_only(rtr, request, net) ==
    LET provider == rtr.default_provider
    IN  IF provider \notin DOMAIN rtr.providers
        THEN ErrResponse(ProviderError("provider_missing",
                                       "provider not registered: " \o provider, FALSE))
        ELSE CASE rtr.providers[provider].kind = "gemini" ->
                    GeminiAdapter_complete(rtr.providers[provider], request, net)
               [] rtr.providers[provider].kind = "codex" -> CodexAdapter_complete
               [] OTHER -> OpusAdapter_complete

\* A faulty variant of LLMRouter_complete: a request for a provider without an
\* adapter falls back to the default provider's adapter.
LLMRouter_complete_fallback(rtr, request, net) ==
    LET asked == UnwrapOr(request.provider, rtr.default_provider)
        provider == IF asked \in DOMAIN rtr.providers THEN asked ELSE rtr.default_provider
    IN  IF provider \notin DOMAIN rtr.providers
        THEN ErrResponse(ProviderError("provider_missing",
                                       "provider not registered: " \o provider, FALSE))
        ELSE CASE rtr.providers[provider].kind = "gemini" ->
                    GeminiAdapter_complete(rtr.providers[provider], request, net)
               [] rtr.providers[provider].kind = "codex" -> CodexAdapter_complete
               [] OTHER -> OpusAdapter_complete

\* LLMRouter::complete: the provider is resolved for this request, and the
\* request goes to the adapter registered under that name.
LLMRouter_complete(rtr, request, net) ==
    LET provider == UnwrapOr(request.provider, rtr.default_provider)
    IN  IF provider \notin DOMAIN rtr.providers
        THEN ErrResponse(ProviderError("provider_missing",
                                       "provider not registered: " \o provider, FALSE))
        ELSE CASE rtr.providers[provider].kind = "gemini" ->
                    GeminiAdapter_complete(rtr.providers[provider], request, net)
               [] rtr.providers[provider].kind = "codex" -> CodexAdapter_complete
               [] OTHER -> OpusAdapter_complete

\* LLMRouter::complete, lines 28-31: the adapters whose complete is called for
\* the request, by the name they are registered under.
LLMRouter_adapter_calls(rtr, request) ==
    LET provider == UnwrapOr(request.provider, rtr.default_provider)
    IN  IF provider \notin DOMAIN rtr.providers THEN <<>> ELSE <<provider>>

\* build_llm_router: env is the set of providers whose keys the environment
\* holds.  An adapter is registered for each; selecting a provider without
\* keys is an error.
build_llm_router(cfg, env) ==
    IF cfg.provider \in {"gemini", "codex", "opus"} /\ cfg.provider \notin env
    THEN [ok |-> FALSE, router |-> [default_provider |-> cfg.provider, providers |-> EmptyMap]]
    ELSE [ok |-> TRUE,
          router |-> [default_provider |-> cfg.provider,
                      providers |-> [n \in env |->
                          [kind |-> n,
                           model |-> IF n = "gemini" /\ cfg.provider # "gemini"
                                     THEN "gemini-3-flash-preview" ELSE cfg.model]]]]

\* ------------------------------------------------------------ agent.rs
AgentConfig(provider, model, max_iterations, temperature, enable_task_store) ==
    [provider |-> provider, model |-> model, max_iterations |-> max_iterations,
     temperature |-> temperature, enable_task_store |-> enable_task_store]

\* Agent::new, lines 34-36: a zero budget means the default one.
NormalizeMaxIterations(n) == IF n = 0 THEN DefaultMaxIterations ELSE n

\* Agent::new: the agent built from the arguments (ok = FALSE where the
\* constructor panics on build_llm_router's error).
Agent_new(name, cfg, prompt, env) ==
    LET c == [cfg EXCEPT
                !.provider = IF @ = "" THEN DefaultProvider ELSE @,
                !.model = IF @ = "" THEN DefaultModel ELSE @,
                !.max_iterations = NormalizeMaxIterations(@),
                !.temperature = IF @ = 0 THEN DefaultTemperature ELSE @]
        r == build_llm_router(c, env)
    IN  [ok |-> r.ok,
         name |-> IF name = "" THEN "agent" ELSE name,
         config |-> c,
         system_prompt |-> IF prompt = "" THEN DefaultPrompt ELSE prompt,
         router |-> r.router,
         tools |-> EmptyMap,
         tasks |-> IF c.enable_task_store THEN Some(EmptyMap) ELSE None]

\* render_value: the JSON text of a tool's output.
render_value(value) == IF IsSome(value) THEN ToString(Unwrap(value)) ELSE ""

\* Agent::execute, lines 127-139: the user-role message of one tool call.
ToolMessage(call, result) ==
    Message("user",
            IF result.success
            THEN "Tool " \o call.name \o " result: " \o render_value(result.output)
            ELSE "Tool " \o call.name \o " error: " \o UnwrapOr(result.error, "unknown error"))

RECURSIVE RunToolCalls_abort_on_failure(_, _)
\* A faulty variant of RunToolCalls: the first failing call ends the loop over the calls.
RunToolCalls_abort_on_failure(map, calls) ==
    IF calls = <<>> THEN [msgs |-> <<>>, log |-> <<>>]
    ELSE LET call == Head(calls)
             result == ToolRegistry_execute(map, call.name, call.args)
             rest == RunToolCalls_abort_on_failure(map, Tail(calls))
         IN  IF result.success
             THEN [msgs |-> <<ToolMessage(call, result)>> \o rest.msgs,
                   log |-> <<call>> \o rest.log]
             ELSE [msgs |-> <<ToolMessage(call, result)>>, log |-> <<call>>]

RECURSIVE RunToolCalls_reversed(_, _)
\* A faulty variant of RunToolCalls: the calls are taken last first.
RunToolCalls_reversed(map, calls) ==
    IF calls = <<>> THEN [msgs |-> <<>>, log |-> <<>>]
    ELSE LET call == Head(calls)
             result == ToolRegistry_execute(map, call.name, call.args)
             rest == RunToolCalls_reversed(map, Tail(calls))
         IN  [msgs |-> rest.msgs \o <<ToolMessage(call, result)>>,
              log |-> rest.log \o <<call>>]

RECURSIVE RunToolCalls(_, _)
\* Agent::execute, lines 125-140: every call of the response goes through the
\* registry, in order; msgs are the messages pushed, log the calls executed.
RunToolCalls(map, calls) ==
    IF calls = <<>> THEN [msgs |-> <<>>, log |-> <<>>]
    ELSE LET call == Head(calls)
             result == ToolRegistry_execute(map, call.name, call.args)
             rest == RunToolCalls(map, Tail(calls))
         IN  [msgs |-> <<ToolMessage(call, result)>> \o rest.msgs,
              log |-> <<call>> \o rest.log]

\* A faulty variant of CompletionRequest: with no schemas the request carries
\* an empty list of tools.
CompletionRequest_empty_list(msgs, schemas, cfg) ==
    [messages |-> msgs, tools |-> IF schemas = None THEN Some({}) ELSE schemas,
     temperature |-> Some(cfg.temperature),
     model |-> Some(cfg.model), provider |-> Some(cfg.provider)]

\* Agent::execute, lines 85-92: the request of one iteration.
CompletionRequest(msgs, schemas, cfg) ==
    [messages |-> msgs, tools |-> schemas, temperature |-> Some(cfg.temperature),
     model |-> Some(cfg.model), provider |-> Some(cfg.provider)]

AgentResult(success, output, tid) ==
    [success |-> success, output |-> output, task_id |-> tid, trace |-> None]

NoResult == AgentResult(FALSE, "", None)

\* ------------------------------------------------------------ state
VARIABLES
    \* the Agent: its fields
    config, system_prompt, router, tools, tasks,
    \* the process: the static COUNTER of task/store.rs and the clock (millis)
    COUNTER, now,
    \* the arguments Agent::new was called with, and the agent it returned
    rawConfig, base,
    \* Mutex<Agent> of the API server: 0 when free, else the holder
    agentLock,
    \* per caller p: position, the ExecuteRequest, handle_execute's
    \* original_config/original_prompt, and its ExecuteResponse
    pc, req, saved, response,
    \* per caller p: the locals of Agent::execute and its AgentResult
    messages, iter, task_id, tool_schemas, result,
    \* per caller p, history: the requests handed to LLMRouter::complete, what it
    \* returned, and the calls handed to ToolRegistry::execute
    sent, got, toolLog,
    \* per caller p, history: per request, the adapters LLMRouter::complete called
    routed,
    \* history: the TaskStore::create and TaskStore::update calls made, in order
    taskLog,
    \* per caller p, history: the registry as it was when execute was entered
    startTools,
    \* the Rotator, and per thread t: position, the key read, calls made
    rot_keys, rot_next, rot_mutex, rot_pc, rot_key, rot_calls,
    \* history: the keys next() returned, in cursor order
    rot_log,
    \* history of a registry's callers: the last register call, the last execute
    \* call, the last get_schemas call, each name's first successful registration
    lastReg, lastExec, lastSchemas, firstReg,
    \* ToolRegistry shared by threads: the RwLock's writer (0 when none), and per
    \* thread t: position, the register call, its result, what it saw afterwards
    reg_lock, reg_pc, reg_call, reg_ret, reg_obs,
    \* a caller of LLMRouter::complete: its last call
    lastRoute,
    \* a caller of GeminiAdapter::complete: position, the adapter's cfg, the
    \* request, the locals model, tries, the loop index and last_err, the
    \* attempts of the call (history), its result, and the calls made
    ad_pc, ad_cfg, ad_req, ad_model, ad_tries, ad_i, ad_last_err, ad_attempts,
    ad_result, ad_calls,
    \* the TaskStores of the process, and per thread t inside create: position
    \* and locals; history: the tasks create returned, the last update or list
    \* call, and the update calls made
    st_maps, st_pc, st_loc, st_made, st_last, st_updates,
    \* threads inside GeminiAdapter::complete on one adapter, per thread t:
    \* position, the loop index, and the keys of its attempts (history)
    ca_pc, ca_i, ca_used,
    \* a TaskStore in persistence mode: the file at its path (None before the
    \* first write), and the threads that hold its RwLock for reading
    st_disk, st_rw,
    \* history: what handle_tasks answered last (None before its first answer)
    served

agentVars == <<config, system_prompt, router, tools, tasks, COUNTER, now, rawConfig, base>>
apiVars == <<agentLock, req, saved, response>>
execVars == <<messages, iter, task_id, tool_schemas, result>>
histVars == <<sent, got, toolLog, routed, taskLog, startTools>>
rotVars == <<rot_keys, rot_next, rot_mutex, rot_pc, rot_key, rot_calls, rot_log>>
regVars == <<lastReg, lastExec, lastSchemas, firstReg>>
raceVars == <<reg_lock, reg_pc, reg_call, reg_ret, reg_obs>>
adVars == <<ad_pc, ad_cfg, ad_req, ad_model, ad_tries, ad_i, ad_last_err, ad_attempts,
            ad_result, ad_calls>>
storeVars == <<st_maps, st_pc, st_loc, st_made, st_last, st_updates>>
concVars == <<ca_pc, ca_i, ca_used>>
\* the variables of the components' own callers
persistVars == <<st_disk, st_rw>>
compVars == <<raceVars, lastRoute, adVars, storeVars, concVars, persistVars, served>>
vars == <<agentVars, apiVars, pc, execVars, histVars, rotVars, regVars, compVars>>

Procs == 1 .. NumRequests
Threads == 1 .. NumCallers

\* ------------------------------------------------------------ inputs
\* ExecuteRequest (debug is never read)
ExecuteRequest(instruction, prompt, provider, model, temperature) ==
    [instruction |-> instruction, system_prompt |-> prompt, provider |-> provider,
     model |-> model, temperature |-> temperature]

NoSaved == [config |-> AgentConfig("", "", 0, 0, FALSE), system_prompt |-> ""]
NoResponse == [success |-> FALSE, output |-> "", task_id |-> None, trace |-> None,
               error |-> None]

ToolCall(name, args) == [name |-> name, args |-> args]
ToolSchema(name, description) == [name |-> name, description |-> description]

\* The registry after add_tool("add", echo), add_tool("boom", fail).
StdTools ==
    ToolRegistry_register(
        ToolRegistry_register(EmptyMap, "add", "echo", ToolSchema("", "adds")).map,
        "boom", "fail", ToolSchema("boom", "fails")).map

\* The tool calls a model may return: a registered tool, a registered tool
\* whose handler fails, a name that is not registered.
Calls == {ToolCall("add", 4), ToolCall("boom", 1), ToolCall("ghost", 1)}

RECURSIVE SeqsUpTo(_, _)
SeqsUpTo(S, n) ==
    IF n = 0 THEN {<<>>}
    ELSE LET shorter == SeqsUpTo(S, n - 1)
         IN  shorter \cup {Append(q, x) : q \in {r \in shorter : Len(r) = n - 1}, x \in S}

Contents == {"", "It is 4."}

NetErrors == {ProviderError("rate_limit", "quota exceeded", TRUE),
              ProviderError("api_error", "bad request", FALSE)}

\* What the attempts of one adapter call may come to.
FullOutcomes ==
    {ErrResponse(e) : e \in NetErrors}
    \cup {OkResponse(c, q) : c \in Contents, q \in SeqsUpTo(Calls, MaxCalls)}

LeanOutcomes ==
    {ErrResponse(ProviderError("server_error", "unavailable", TRUE)),
     OkResponse("Done.", <<>>),
     OkResponse("", <<ToolCall("boom", 1)>>)}

\* The outcomes offered to the iteration that follows i completed ones.
Outcomes(i) == IF i < MaxVaried THEN FullOutcomes ELSE LeanOutcomes

\* ------------------------------------------------------------ Agent::execute
\* A faulty variant of LoopContinues: the range is taken inclusive (0..=max).
LoopContinues_inclusive(i, max) == i <= max

\* Agent::execute, line 84: for _ in 0..max_iterations, after i iterations.
LoopContinues(i, max) == i < max

\* A faulty variant of IsFinal: an answer without text is not taken as the final one.
IsFinal_needs_content(resp) == resp.tool_calls = <<>> /\ resp.content # ""

\* Agent::execute, line 108: the completion that ends the loop.
IsFinal(resp) == resp.tool_calls = <<>>

\* A faulty variant of ErrorText: the error's Display form, "code: message".
ErrorText_display(err) == err.code \o ": " \o err.message

\* Agent::execute, line 97: what the failed task records of a ProviderError.
ErrorText(err) == err.message

\* A faulty variant of RequestMessages: a context window of the system message and
\* the three most recent messages.
RequestMessages_window(msgs) ==
    IF Len(msgs) > 4 THEN <<msgs[1]>> \o SubSeq(msgs, Len(msgs) - 2, Len(msgs)) ELSE msgs

\* Agent::execute, line 86: the request carries a clone of the conversation.
RequestMessages(msgs) == msgs

\* A faulty variant of StoreUpdate: a failure is not written to the task.
StoreUpdate_drops_failure(store, tid, status, output, error, time) ==
    IF IsSome(store) /\ IsSome(tid) /\ status # "Failed"
    THEN Some(TaskStore_update(Unwrap(store), Unwrap(tid), status, output, error, time))
    ELSE store

\* Agent::execute, lines 96-98, 109-111, 143-145: the terminal update, applied
\* when a store is attached and a task was created.
StoreUpdate(store, tid, status, output, error, time) ==
    IF IsSome(store) /\ IsSome(tid)
    THEN Some(TaskStore_update(Unwrap(store), Unwrap(tid), status, output, error, time))
    ELSE store

\* The record of one TaskStore::create or TaskStore::update call made by p.
TaskEvent(op, p, id, status) == [op |-> op, by |-> p, id |-> id, status |-> status]

\* The log after the terminal update of p's execution (made as StoreUpdate is).
LogUpdate(log, store, tid, p, status) ==
    IF IsSome(store) /\ IsSome(tid)
    THEN Append(log, TaskEvent("update", p, Unwrap(tid), status))
    ELSE log

\* A faulty variant of AgentFrame: execute leaves the default prompt behind.
AgentFrame_resets_prompt ==
    /\ system_prompt' = DefaultPrompt
    /\ UNCHANGED <<config, router, tools>>

\* Agent::execute(&self, ...), line 60: the agent is borrowed shared, and no
\* statement of lines 60-153 assigns a field of it or registers a tool.
AgentFrame == UNCHANGED <<config, system_prompt, router, tools>>

\* Agent::execute, lines 60-82: the task, the seeded conversation, the schemas.
AgentStart(p) ==
    /\ pc[p] = "x_start"
    /\ IF IsSome(tasks)
       THEN LET id == next_id(now, COUNTER)
            IN  /\ tasks' = Some(TaskStore_create(Unwrap(tasks), id, req[p].instruction, now))
                /\ COUNTER' = COUNTER + 1
                /\ task_id' = [task_id EXCEPT ![p] = Some(id)]
                /\ taskLog' = Append(taskLog, TaskEvent("create", p, id, "Pending"))
       ELSE /\ task_id' = [task_id EXCEPT ![p] = None]
            /\ UNCHANGED <<tasks, COUNTER, taskLog>>
    /\ messages' = [messages EXCEPT ![p] =
                      <<Message("system", system_prompt),
                        Message("user", req[p].instruction)>>]
    /\ tool_schemas' = [tool_schemas EXCEPT ![p] =
                          IF ToolRegistry_count(tools) > 0
                          THEN Some(ToolRegistry_get_schemas(tools)) ELSE None]
    /\ iter' = [iter EXCEPT ![p] = 0]
    /\ pc' = [pc EXCEPT ![p] = "x_loop"]
    /\ startTools' = [startTools EXCEPT ![p] = tools]
    /\ AgentFrame
    /\ UNCHANGED <<now, rawConfig, base,
                   apiVars, result, sent, got, toolLog, routed, rotVars, regVars,
                   compVars>>

\* Agent::execute, lines 84-140: one iteration of the loop; net is what the
\* provider's attempts come to.
AgentIterate(p, net) ==
    /\ pc[p] = "x_loop"
    /\ LoopContinues(iter[p], config.max_iterations)
    /\ LET request == CompletionRequest(RequestMessages(messages[p]), tool_schemas[p], config)
           resp == LLMRouter_complete(router, request, net)
       IN  /\ sent' = [sent EXCEPT ![p] = Append(@, request)]
           /\ got' = [got EXCEPT ![p] = Append(@, resp)]
           /\ routed' = [routed EXCEPT ![p] =
                           Append(@, LLMRouter_adapter_calls(router, request))]
           /\ IF ~resp.ok
              THEN /\ tasks' = StoreUpdate(tasks, task_id[p], "Failed", None,
                                           Some(ErrorText(resp.err)), now)
                   /\ taskLog' = LogUpdate(taskLog, tasks, task_id[p], p, "Failed")
                   /\ result' = [result EXCEPT ![p] = AgentResult(FALSE, "", task_id[p])]
                   /\ pc' = [pc EXCEPT ![p] = "x_done"]
                   /\ UNCHANGED <<messages, iter, toolLog>>
              ELSE IF IsFinal(resp)
              THEN /\ tasks' = StoreUpdate(tasks, task_id[p], "Completed",
                                           Some(resp.content), None, now)
                   /\ taskLog' = LogUpdate(taskLog, tasks, task_id[p], p, "Completed")
                   /\ result' = [result EXCEPT ![p] =
                                   AgentResult(TRUE, resp.content, task_id[p])]
                   /\ pc' = [pc EXCEPT ![p] = "x_done"]
                   /\ UNCHANGED <<messages, iter, toolLog>>
              ELSE LET run == RunToolCalls(tools, resp.tool_calls)
                   IN  /\ messages' = [messages EXCEPT ![p] =
                                         Append(@, Message("assistant", resp.content))
                                         \o run.msgs]
                       /\ toolLog' = [toolLog EXCEPT ![p] = @ \o run.log]
                       /\ iter' = [iter EXCEPT ![p] = @ + 1]
                       /\ UNCHANGED <<tasks, taskLog, result, pc>>
    /\ AgentFrame
    /\ UNCHANGED <<COUNTER, now, rawConfig, base,
                   apiVars, task_id, tool_schemas, startTools, rotVars, regVars, compVars>>

\* Agent::execute, lines 143-152: the loop ran out of iterations.
AgentExhaust(p) ==
    /\ pc[p] = "x_loop"
    /\ ~LoopContinues(iter[p], config.max_iterations)
    /\ tasks' = StoreUpdate(tasks, task_id[p], "Failed", None,
                            Some("max iterations reached"), now)
    /\ taskLog' = LogUpdate(taskLog, tasks, task_id[p], p, "Failed")
    /\ result' = [result EXCEPT ![p] = AgentResult(FALSE, "", task_id[p])]
    /\ pc' = [pc EXCEPT ![p] = "x_done"]
    /\ AgentFrame
    /\ UNCHANGED <<COUNTER, now, rawConfig, base,
                   apiVars, messages, iter, task_id, tool_schemas, sent, got, toolLog,
                   routed, startTools, rotVars, regVars, compVars>>

\* ------------------------------------------------------------ initial states
\* The agent Agent::new(name, raw, prompt) returns in environment env, with the
\* tools reg added through add_tool.
InitAgent(raw, prompt, env, reg) ==
    LET a == Agent_new("", raw, prompt, env)
    IN  /\ a.ok
        /\ config = a.config
        /\ system_prompt = a.system_prompt
        /\ router = a.router
        /\ tools = reg
        /\ tasks = a.tasks
        /\ COUNTER = 1
        /\ now = 0
        /\ rawConfig = raw
        /\ base = [config |-> a.config, system_prompt |-> a.system_prompt]
        /\ agentLock = 0

InitCallers(first, firstReq) ==
    /\ pc = [p \in Procs |-> IF p = 1 THEN first ELSE "off"]
    /\ req = [p \in Procs |-> IF p = 1 THEN firstReq
                              ELSE ExecuteRequest("", None, None, None, None)]
    /\ saved = [p \in Procs |-> NoSaved]
    /\ response = [p \in Procs |-> NoResponse]
    /\ messages = [p \in Procs |-> <<>>]
    /\ iter = [p \in Procs |-> 0]
    /\ task_id = [p \in Procs |-> None]
    /\ tool_schemas = [p \in Procs |-> None]
    /\ result = [p \in Procs |-> NoResult]
    /\ sent = [p \in Procs |-> <<>>]
    /\ got = [p \in Procs |-> <<>>]
    /\ toolLog = [p \in Procs |-> <<>>]
    /\ routed = [p \in Procs |-> <<>>]
    /\ taskLog = <<>>
    /\ startTools = [p \in Procs |-> EmptyMap]

InitRotatorOff ==
    /\ rot_keys = <<>>
    /\ rot_next = 0
    /\ rot_mutex = 0
    /\ rot_pc = [t \in Threads |-> "off"]
    /\ rot_key = [t \in Threads |-> None]
    /\ rot_calls = [t \in Threads |-> 0]
    /\ rot_log = <<>>

NoReg == [name |-> "", handler |-> "", schema |-> ToolSchema("", ""),
          res |-> RegOk, before |-> EmptyMap, n |-> 0, oks |-> 0]
NoExec == [name |-> "", args |-> 0, n |-> 0, invoked |-> <<>>,
           result |-> [success |-> FALSE, output |-> None, error |-> None]]

InitRegistryCallersOff ==
    /\ lastReg = NoReg
    /\ lastExec = NoExec
    /\ lastSchemas = {}
    /\ firstReg = EmptyMap

NoRoute == [request |-> CompletionRequest(<<>>, None, AgentConfig("", "", 0, 0, FALSE)),
            net |-> ErrResponse(NoError), resp |-> ErrResponse(NoError),
            calls |-> <<>>, n |-> 0]

\* No thread shares the registry.
InitRaceOff ==
    /\ reg_lock = 0
    /\ reg_pc = [t \in Threads |-> "off"]
    /\ reg_call = [t \in Threads |-> [name |-> "", handler |-> ""]]
    /\ reg_ret = [t \in Threads |-> RegOk]
    /\ reg_obs = [t \in Threads |-> {}]

\* Nobody calls an adapter directly.
InitAdapterOff ==
    /\ ad_pc = "off"
    /\ ad_cfg = [api_keys |-> <<>>, model |-> ""]
    /\ ad_req = NoRoute.request
    /\ ad_model = ""
    /\ ad_tries = 0
    /\ ad_i = 0
    /\ ad_last_err = None
    /\ ad_attempts = <<>>
    /\ ad_result = ErrResponse(NoError)
    /\ ad_calls = 0

Stores == {"agent", "other"}

NoStoreCall == [op |-> "", store |-> "", id |-> "", status |-> "", output |-> None,
                error |-> None, limit |-> 0, at |-> 0, before |-> EmptyMap,
                ret |-> <<>>]

\* No TaskStore has callers of its own.
InitStoreOff ==
    /\ st_maps = [s \in Stores |-> EmptyMap]
    /\ st_pc = [t \in Threads |-> "off"]
    /\ st_loc = [t \in Threads |-> [store |-> "", count |-> 0, id |-> ""]]
    /\ st_made = <<>>
    /\ st_last = NoStoreCall
    /\ st_updates = [n |-> 0, ended |-> {}]

\* No thread is inside an adapter's complete.
InitConcOff ==
    /\ ca_pc = [t \in Threads |-> "off"]
    /\ ca_i = [t \in Threads |-> 0]
    /\ ca_used = [t \in Threads |-> <<>>]

\* No TaskStore persists, and nobody asks for the task list.
InitPersistOff ==
    /\ st_disk = None
    /\ st_rw = {}
    /\ served = None

InitComponentsOff ==
    /\ InitRaceOff
    /\ lastRoute = NoRoute
    /\ InitAdapterOff
    /\ InitStoreOff
    /\ InitConcOff
    /\ InitPersistOff

\* The configurations handed to Agent::new.
RawConfigs ==
    {AgentConfig(pr, "", n, 0, st) :
        pr \in {"", "codex"}, n \in 0 .. MaxIter, st \in BOOLEAN}

RawPrompts == {"", "Be brief."}

\* The agents explored: every configuration with every prompt and registry,
\* except that the ten-iteration default budget (max_iterations = 0) is run
\* with the default prompt and the standard tools only.
Setups ==
    {s \in RawConfigs \X RawPrompts \X {EmptyMap, StdTools} :
        s[1].max_iterations = 0 => (s[2] = "" /\ s[3] = StdTools)}

\* One caller of Agent::execute on a freshly built agent.
Init ==
    /\ \E s \in Setups : InitAgent(s[1], s[2], {"gemini", "codex"}, s[3])
    /\ InitCallers("x_start", ExecuteRequest("What is 2+2?", None, None, None, None))
    /\ InitRotatorOff
    /\ InitRegistryCallersOff
    /\ InitComponentsOff

Next ==
    \/ AgentStart(1)
    \/ \E net \in Outcomes(iter[1]) : AgentIterate(1, net)
    \/ AgentExhaust(1)

Spec == Init /\ [][Next]_vars

\* ------------------------------------------------------------ properties of Agent::execute
HasCalls(r) == r.ok /\ r.tool_calls # <<>>
ZeroCalls(r) == r.ok /\ r.tool_calls = <<>>
AllHaveCalls(q, k) == \A i \in 1 .. k : HasCalls(q[i])
Returned(p) == pc[p] \in {"x_done", "h_done"}

\* The task of caller p's execution has this status, output and error.
TaskIs(p, status, output, error) ==
    /\ IsSome(task_id[p])
    /\ Unwrap(task_id[p]) \in DOMAIN Unwrap(tasks)
    /\ Unwrap(tasks)[Unwrap(task_id[p])].status = status
    /\ Unwrap(tasks)[Unwrap(task_id[p])].output = output
    /\ Unwrap(tasks)[Unwrap(task_id[p])].error = error

RECURSIVE CallsOfFirst(_, _)
\* The tool calls of the first k responses of q, in order.
CallsOfFirst(q, k) ==
    IF k = 0 THEN <<>> ELSE CallsOfFirst(q, k - 1) \o q[k].tool_calls

\* The number of messages before iteration k's own: the two seed messages and,
\* per earlier iteration, the assistant message and one message per call.
MessagesBefore(q, k) == 2 + (k - 1) + Len(CallsOfFirst(q, k - 1))

\* What the registry's answer to a call reads as in the conversation.
ExpectedToolText(call) ==
    IF call.name \notin DOMAIN tools
    THEN "Tool " \o call.name \o " error: tool not found"
    ELSE IF CallHandler(tools[call.name].handler, call.args).ok
    THEN "Tool " \o call.name \o " result: "
         \o ToString(CallHandler(tools[call.name].handler, call.args).val)
    ELSE "Tool " \o call.name \o " error: "
         \o CallHandler(tools[call.name].handler, call.args).err

CallFails(call) ==
    \/ call.name \notin DOMAIN tools
    \/ ~CallHandler(tools[call.name].handler, call.args).ok

\* C1: when the first k-1 completions return tool calls and the k-th returns
\* none (k <= max_iterations), execute has made exactly k Router.complete calls
\* and returned success with the k-th completion's content, and the task of an
\* attached store is Completed with that content as its output.
C1_FinalAnswer ==
    \A p \in Procs : \A k \in 1 .. Len(got[p]) :
        (k <= config.max_iterations /\ AllHaveCalls(got[p], k - 1) /\ ZeroCalls(got[p][k]))
        => /\ Returned(p)
           /\ Len(sent[p]) = k
           /\ Len(got[p]) = k
           /\ result[p].success
           /\ result[p].output = got[p][k].content
           /\ IsSome(tasks) =>
                /\ result[p].task_id = task_id[p]
                /\ TaskIs(p, "Completed", Some(got[p][k].content), None)

C1_Witness ==
    /\ pc[1] = "x_done"
    /\ Len(got[1]) = 2
    /\ HasCalls(got[1][1])
    /\ ZeroCalls(got[1][2])
    /\ got[1][2].content # ""
    /\ result[1].success
    /\ IsSome(tasks)

\* The budget the agent runs with when Agent::new was given n.
EffectiveBudget(n) == IF n = 0 THEN DefaultMaxIterations ELSE n

\* C2 as stated: with max_iterations configured as N and every completion
\* returning at least one tool call, execute makes exactly N Router.complete
\* calls and returns failure with an empty output, the task Failed with
\* "max iterations reached".
C2_ExactlyConfigured ==
    \A p \in Procs :
        (pc[p] = "x_done" /\ AllHaveCalls(got[p], Len(got[p])))
        => /\ Len(sent[p]) = rawConfig.max_iterations
           /\ ~result[p].success
           /\ result[p].output = ""
           /\ IsSome(tasks) => TaskIs(p, "Failed", None, Some("max iterations reached"))

\* C2 amended: the same with N >= 1; a configured 0 is replaced by the default
\* of 10 when the agent is built, and the execution then makes exactly 10
\* calls.  No execution makes more calls than that budget.
C2_ExactlyEffective ==
    \A p \in Procs :
        /\ Len(sent[p]) <= EffectiveBudget(rawConfig.max_iterations)
        /\ (pc[p] = "x_done" /\ AllHaveCalls(got[p], Len(got[p])))
           => /\ Len(sent[p]) = EffectiveBudget(rawConfig.max_iterations)
              /\ ~result[p].success
              /\ result[p].output = ""
              /\ IsSome(tasks) => TaskIs(p, "Failed", None, Some("max iterations reached"))

C2_Witness ==
    /\ pc[1] = "x_done"
    /\ rawConfig.max_iterations = 0
    /\ AllHaveCalls(got[1], Len(got[1]))
    /\ Len(sent[1]) = DefaultMaxIterations
    /\ IsSome(tasks)

\* C3: a completion that fails is the last one: no Router.complete call and no
\* tool execution follows it, execute has returned failure with an empty
\* output, and the task is Failed with the provider error's message.
C3_FailedCompletion ==
    \A p \in Procs : \A k \in 1 .. Len(got[p]) :
        ~got[p][k].ok
        => /\ k = Len(got[p])
           /\ Len(sent[p]) = k
           /\ Returned(p)
           /\ toolLog[p] = CallsOfFirst(got[p], k - 1)
           /\ ~result[p].success
           /\ result[p].output = ""
           /\ IsSome(tasks) => TaskIs(p, "Failed", None, Some(got[p][k].err.message))

C3_Witness ==
    /\ pc[1] = "x_done"
    /\ Len(got[1]) = 2
    /\ ~got[1][2].ok
    /\ toolLog[1] # <<>>
    /\ IsSome(tasks)

\* C4: an iteration whose completion returns tool calls runs to its end
\* whatever the calls come to: every call of the response is executed, a call
\* that names an unregistered tool or whose handler fails leaves a user-role
\* message with the error text, and the loop goes on; an execution ends only
\* on a completion without tool calls, a failed completion, or the exhausted
\* budget.
C4_ToolFailureRecovered ==
    \A p \in Procs :
        /\ \A k \in 1 .. Len(got[p]) :
              HasCalls(got[p][k])
              => /\ iter[p] >= k
                 /\ Len(toolLog[p]) >= Len(CallsOfFirst(got[p], k))
                 /\ Len(messages[p]) >= MessagesBefore(got[p], k + 1)
                 /\ \A j \in 1 .. Len(got[p][k].tool_calls) :
                       /\ toolLog[p][Len(CallsOfFirst(got[p], k - 1)) + j]
                              = got[p][k].tool_calls[j]
                       /\ CallFails(got[p][k].tool_calls[j])
                          => messages[p][MessagesBefore(got[p], k) + 1 + j]
                                = Message("user", ExpectedToolText(got[p][k].tool_calls[j]))
                 /\ \/ pc[p] = "x_loop"
                    \/ Len(got[p]) > k
                    \/ k = config.max_iterations
        /\ Returned(p)
           => \/ Len(got[p]) >= 1 /\ ~got[p][Len(got[p])].ok
              \/ Len(got[p]) >= 1 /\ ZeroCalls(got[p][Len(got[p])])
              \/ Len(got[p]) = config.max_iterations /\ AllHaveCalls(got[p], Len(got[p]))

C4_Witness ==
    /\ Len(got[1]) = 2
    /\ got[1][1].ok
    /\ got[1][1].tool_calls = <<ToolCall("boom", 1), ToolCall("add", 4)>>
    /\ tools = StdTools
    /\ HasCalls(got[1][2])
    /\ pc[1] = "x_loop"

\* C5: every finished iteration with j >= 1 tool calls has added exactly 1 + j
\* messages to the conversation: the assistant message with the completion's
\* content, then one user-role message per call in the order returned; and the
\* calls executed through the registry are exactly the returned calls, each
\* once, in that order.
C5_ConversationGrowth ==
    \A p \in Procs :
        /\ \A k \in 1 .. Len(got[p]) : HasCalls(got[p][k]) => iter[p] >= k
        /\ iter[p] <= Len(got[p])
        /\ AllHaveCalls(got[p], iter[p])
        /\ pc[p] \in {"x_loop", "x_done", "h_done"}
           => /\ Len(messages[p]) = MessagesBefore(got[p], iter[p] + 1)
              /\ toolLog[p] = CallsOfFirst(got[p], iter[p])
              /\ \A k \in 1 .. iter[p] :
                    /\ messages[p][MessagesBefore(got[p], k) + 1]
                          = Message("assistant", got[p][k].content)
                    /\ \A j \in 1 .. Len(got[p][k].tool_calls) :
                          messages[p][MessagesBefore(got[p], k) + 1 + j]
                             = Message("user", ExpectedToolText(got[p][k].tool_calls[j]))

C5_Witness ==
    /\ iter[1] = 2
    /\ got[1][1].ok
    /\ got[1][1].content = ""
    /\ got[1][1].tool_calls = <<ToolCall("add", 4), ToolCall("ghost", 1)>>
    /\ tools = StdTools
    /\ Len(messages[1]) = 7

IsStrictPrefix(a, b) == Len(a) < Len(b) /\ SubSeq(b, 1, Len(a)) = a

\* C6: the messages of each request are a strict prefix of the next request's,
\* and the first request carries exactly the system message with the agent's
\* prompt and the user message with the instruction.
C6_RequestsGrow ==
    \A p \in Procs :
        /\ \A i \in 1 .. Len(sent[p]) - 1 :
              IsStrictPrefix(sent[p][i].messages, sent[p][i + 1].messages)
        /\ Len(sent[p]) >= 1
           => sent[p][1].messages
                 = <<Message("system", UnwrapOr(req[p].system_prompt, base.system_prompt)),
                     Message("user", req[p].instruction)>>

C6_Witness ==
    /\ Len(sent[1]) = 3
    /\ Len(sent[1][3].messages) > Len(sent[1][2].messages)
    /\ Len(sent[1][2].messages) > 3

\* ------------------------------------------------------------ Rotator::next
KeyName(i) == "key" \o ToString(i)

\* A faulty variant of RotatorMutexFree: next() does not wait for the mutex, so the
\* read of the cursor and its increment are not one critical section.
RotatorMutexFree_unguarded(m) == TRUE

\* Rotator::next, line 20: self.next.lock() is granted when no thread holds it.
RotatorMutexFree(m) == m = 0

\* Rotator::next, lines 17-19: entry; an empty rotator returns None at once.
RotCall(t) ==
    /\ rot_pc[t] = "idle"
    /\ rot_calls[t] < MaxNextCalls
    /\ IF rot_keys = <<>>
       THEN /\ rot_key' = [rot_key EXCEPT ![t] = None]
            /\ rot_calls' = [rot_calls EXCEPT ![t] = @ + 1]
            /\ UNCHANGED rot_pc
       ELSE /\ rot_pc' = [rot_pc EXCEPT ![t] = "lock"]
            /\ UNCHANGED <<rot_key, rot_calls>>
    /\ UNCHANGED <<rot_keys, rot_next, rot_mutex, rot_log>>
    /\ UNCHANGED <<agentVars, apiVars, pc, execVars, histVars, regVars, compVars>>

\* Rotator::next, line 20: the mutex is taken.
RotLock(t) ==
    /\ rot_pc[t] = "lock"
    /\ RotatorMutexFree(rot_mutex)
    /\ rot_mutex' = t
    /\ rot_pc' = [rot_pc EXCEPT ![t] = "read"]
    /\ UNCHANGED <<rot_keys, rot_next, rot_key, rot_calls, rot_log>>
    /\ UNCHANGED <<agentVars, apiVars, pc, execVars, histVars, regVars, compVars>>

\* Rotator::next, line 21: key = keys[*idx % keys.len()] (sequences count from 1).
RotRead(t) ==
    /\ rot_pc[t] = "read"
    /\ rot_key' = [rot_key EXCEPT ![t] = Some(rot_keys[(rot_next % Len(rot_keys)) + 1])]
    /\ rot_pc' = [rot_pc EXCEPT ![t] = "incr"]
    /\ UNCHANGED <<rot_keys, rot_next, rot_mutex, rot_calls, rot_log>>
    /\ UNCHANGED <<agentVars, apiVars, pc, execVars, histVars, regVars, compVars>>

\* Rotator::next, line 22: *idx += 1; the call takes its place in cursor order.
RotIncr(t) ==
    /\ rot_pc[t] = "incr"
    /\ rot_next' = rot_next + 1
    /\ rot_log' = Append(rot_log, Unwrap(rot_key[t]))
    /\ rot_pc' = [rot_pc EXCEPT ![t] = "ret"]
    /\ UNCHANGED <<rot_keys, rot_mutex, rot_key, rot_calls>>
    /\ UNCHANGED <<agentVars, apiVars, pc, execVars, histVars, regVars, compVars>>

\* Rotator::next, lines 23-24: Some(key) is returned and the guard dropped.
RotReturn(t) ==
    /\ rot_pc[t] = "ret"
    /\ rot_mutex' = 0
    /\ rot_calls' = [rot_calls EXCEPT ![t] = @ + 1]
    /\ rot_pc' = [rot_pc EXCEPT ![t] = "idle"]
    /\ UNCHANGED <<rot_keys, rot_next, rot_key, rot_log>>
    /\ UNCHANGED <<agentVars, apiVars, pc, execVars, histVars, regVars, compVars>>

\* An agent nobody calls: the state of the components that a specification of
\* one component alone leaves untouched.
InitAgentIdle ==
    /\ InitAgent(AgentConfig("", "", MaxIter, 0, TRUE), "", {"gemini", "codex"}, StdTools)
    /\ InitCallers("off", ExecuteRequest("", None, None, None, None))

\* Rotator::new over 0 .. MaxKeys credentials, shared by the threads.
InitRotator ==
    /\ InitAgentIdle
    /\ InitRegistryCallersOff
    /\ InitComponentsOff
    /\ \E m \in 0 .. MaxKeys : rot_keys = [i \in 1 .. m |-> KeyName(i)]
    /\ rot_next = 0
    /\ rot_mutex = 0
    /\ rot_pc = [t \in Threads |-> "idle"]
    /\ rot_key = [t \in Threads |-> None]
    /\ rot_calls = [t \in Threads |-> 0]
    /\ rot_log = <<>>

NextRotator ==
    \E t \in Threads :
        \/ RotCall(t)
        \/ RotLock(t)
        \/ RotRead(t)
        \/ RotIncr(t)
        \/ RotReturn(t)

SpecRotator == InitRotator /\ [][NextRotator]_vars

\* C7: with M >= 1 credentials, the n-th next() call in cursor order returns
\* credential (n-1) mod M whatever the interleaving; the cursor counts the
\* calls (no update is lost), any M consecutive calls return every credential
\* once, and the call after them repeats the first of them.
C7_RoundRobin ==
    Len(rot_keys) >= 1
    => /\ \A n \in 1 .. Len(rot_log) :
             rot_log[n] = rot_keys[((n - 1) % Len(rot_keys)) + 1]
       /\ rot_next = Len(rot_log)
       /\ \A n \in 1 .. Len(rot_log) :
             /\ n + Len(rot_keys) - 1 <= Len(rot_log)
                => {rot_log[i] : i \in n .. n + Len(rot_keys) - 1}
                      = {rot_keys[i] : i \in 1 .. Len(rot_keys)}
             /\ n + Len(rot_keys) <= Len(rot_log)
                => rot_log[n + Len(rot_keys)] = rot_log[n]
       /\ \A t \in Threads :
             rot_pc[t] = "ret" => rot_key[t] = Some(rot_log[Len(rot_log)])

C7_Witness ==
    /\ Len(rot_keys) = 2
    /\ Len(rot_log) = 3
    /\ rot_pc[1] = "ret"
    /\ rot_pc[2] = "lock"
    /\ rot_calls[2] = 1

\* ------------------------------------------------------------ handle_execute
\* A faulty variant of Trim: the instruction is taken as sent, spaces included.
Trim_spaces_kept(text) == text

\* str::trim over the instructions a request may carry.
Trim(text) == IF text \in {" ", "  "} THEN "" ELSE text

\* A faulty variant of AgentMutexFree: the handler does not wait for the agent mutex,
\* so the override windows of two requests may overlap.
AgentMutexFree_unguarded(m) == TRUE

\* handle_execute, line 80: agent.lock() is granted when no request holds it.
AgentMutexFree(m) == m = 0

\* handle_execute, lines 84-92: the request's overrides applied to the config.
ApplyOverrides(cfg, r) ==
    [cfg EXCEPT !.provider = UnwrapOr(r.provider, @),
                !.model = UnwrapOr(r.model, @),
                !.temperature = UnwrapOr(r.temperature, @)]

\* to_response, and the response of a request that never reached the agent.
to_response(res) ==
    [success |-> res.success, output |-> res.output, task_id |-> res.task_id,
     trace |-> res.trace, error |-> None]
ErrorResponse(text) ==
    [success |-> FALSE, output |-> "", task_id |-> None, trace |-> None,
     error |-> Some(text)]

\* handle_execute, lines 59-77: the request arrives; a blank instruction is
\* answered at once.
HandleExecuteRecv(p, r) ==
    /\ pc[p] = "h_idle"
    /\ req' = [req EXCEPT ![p] = r]
    /\ IF Trim(r.instruction) = ""
       THEN /\ response' = [response EXCEPT ![p] = ErrorResponse("instruction required")]
            /\ pc' = [pc EXCEPT ![p] = "h_done"]
       ELSE /\ pc' = [pc EXCEPT ![p] = "h_lock"]
            /\ UNCHANGED response
    /\ UNCHANGED <<agentVars, agentLock, saved, execVars, histVars, rotVars, regVars, compVars>>

\* handle_execute, lines 80-95: the lock is taken, the configuration and the
\* prompt are kept aside and the overrides applied.
HandleExecuteLock(p) ==
    /\ pc[p] = "h_lock"
    /\ AgentMutexFree(agentLock)
    /\ agentLock' = p
    /\ saved' = [saved EXCEPT ![p] = [config |-> config, system_prompt |-> system_prompt]]
    /\ config' = ApplyOverrides(config, req[p])
    /\ system_prompt' = UnwrapOr(req[p].system_prompt, system_prompt)
    /\ pc' = [pc EXCEPT ![p] = "x_start"]
    /\ UNCHANGED <<router, tools, tasks, COUNTER, now, rawConfig, base, req, response,
                   execVars, histVars, rotVars, regVars, compVars>>

\* handle_execute, lines 99-133: execute has returned; the configuration and
\* the prompt are put back, the lock is released and the response sent.
HandleExecuteUnlock(p) ==
    /\ pc[p] = "x_done"
    /\ saved[p] # NoSaved
    /\ config' = saved[p].config
    /\ system_prompt' = saved[p].system_prompt
    /\ agentLock' = 0
    /\ response' = [response EXCEPT ![p] = to_response(result[p])]
    /\ pc' = [pc EXCEPT ![p] = "h_done"]
    /\ UNCHANGED <<router, tools, tasks, COUNTER, now, rawConfig, base, req, saved,
                   execVars, histVars, rotVars, regVars, compVars>>

\* The /execute requests the clients send.
ApiRequests ==
    {ExecuteRequest("  ", Some("Be terse."), Some("codex"),
                    Some("gemini-3-pro-preview"), Some(9)),
     ExecuteRequest("Add 2 and 2", None, None, None, None),
     ExecuteRequest("Add 2 and 2", None, Some("codex"), None, Some(9)),
     ExecuteRequest("Add 2 and 2", Some("Be terse."), None,
                    Some("gemini-3-pro-preview"), None),
     ExecuteRequest("Add 2 and 2", Some("Be terse."), Some("gemini"),
                    Some("gemini-3-pro-preview"), Some(0)),
     ExecuteRequest("Add 2 and 2", None, Some("ghost"), Some("gpt"), None)}

\* The servers: the provider configured and the providers whose keys the
\* environment holds.  (With the default provider, gemini, and no gemini key
\* Agent::new panics at line 40 and there is no agent to serve.)
ApiSetups ==
    {[provider |-> "", env |-> {"gemini", "codex"}],
     [provider |-> "codex", env |-> {"codex"}]}

\* The server: one agent behind Arc<Mutex<Agent>>, a request per caller.
InitApi ==
    /\ \E s \in ApiSetups :
          InitAgent(AgentConfig(s.provider, "", MaxIter, 0, TRUE), "", s.env, StdTools)
    /\ pc = [p \in Procs |-> "h_idle"]
    /\ req = [p \in Procs |-> ExecuteRequest("", None, None, None, None)]
    /\ saved = [p \in Procs |-> NoSaved]
    /\ response = [p \in Procs |-> NoResponse]
    /\ messages = [p \in Procs |-> <<>>]
    /\ iter = [p \in Procs |-> 0]
    /\ task_id = [p \in Procs |-> None]
    /\ tool_schemas = [p \in Procs |-> None]
    /\ result = [p \in Procs |-> NoResult]
    /\ sent = [p \in Procs |-> <<>>]
    /\ got = [p \in Procs |-> <<>>]
    /\ toolLog = [p \in Procs |-> <<>>]
    /\ routed = [p \in Procs |-> <<>>]
    /\ taskLog = <<>>
    /\ startTools = [p \in Procs |-> EmptyMap]
    /\ InitRotatorOff
    /\ InitRegistryCallersOff
    /\ InitComponentsOff

NextApi ==
    \E p \in Procs :
        \/ \E r \in ApiRequests : HandleExecuteRecv(p, r)
        \/ HandleExecuteLock(p)
        \/ AgentStart(p)
        \/ \E net \in LeanOutcomes : AgentIterate(p, net)
        \/ AgentExhaust(p)
        \/ HandleExecuteUnlock(p)

SpecApi == InitApi /\ [][NextApi]_vars

InWindow(p) == pc[p] \in {"x_start", "x_loop", "x_done"}

\* C8: the override windows of concurrent requests never overlap, and every
\* completion request issued for a request carries the provider, model,
\* temperature and system prompt of the base configuration overridden by that
\* request's own overrides only.
C8_NoOverrideBleed ==
    /\ \A p, q \in Procs : (InWindow(p) /\ InWindow(q)) => p = q
    /\ \A p \in Procs :
          /\ InWindow(p)
             => /\ agentLock = p
                /\ config = ApplyOverrides(base.config, req[p])
                /\ system_prompt = UnwrapOr(req[p].system_prompt, base.system_prompt)
          /\ \A i \in 1 .. Len(sent[p]) :
                /\ sent[p][i].provider
                      = Some(UnwrapOr(req[p].provider, base.config.provider))
                /\ sent[p][i].model = Some(UnwrapOr(req[p].model, base.config.model))
                /\ sent[p][i].temperature
                      = Some(UnwrapOr(req[p].temperature, base.config.temperature))
                /\ sent[p][i].messages[1]
                      = Message("system",
                                UnwrapOr(req[p].system_prompt, base.system_prompt))

C8_Witness ==
    /\ pc[1] = "h_done"
    /\ Len(sent[1]) >= 1
    /\ IsSome(req[1].provider)
    /\ IsSome(req[1].temperature)
    /\ pc[2] = "x_loop"
    /\ Len(sent[2]) >= 1
    /\ req[2].provider = None
    /\ IsSome(req[2].model)
    /\ sent[2][1].provider # sent[1][1].provider

\* ------------------------------------------------------------ ToolRegistry callers
\* A caller registers a tool: the call, its result and the registry before it
\* are remembered, and so is the first successful registration of each name.
RegisterCall(name, handler, schema) ==
    LET r == ToolRegistry_register(tools, name, handler, schema)
    IN  /\ tools' = r.map
        /\ lastReg' = [name |-> name, handler |-> handler, schema |-> schema,
                       res |-> r.res, before |-> tools, n |-> 1,
                       oks |-> lastReg.oks + (IF r.res.ok THEN 1 ELSE 0)]
        /\ firstReg' = IF r.res.ok /\ name \notin DOMAIN firstReg
                       THEN [k \in DOMAIN firstReg \cup {name} |->
                                IF k = name
                                THEN [handler |-> handler,
                                      description |-> schema.description]
                                ELSE firstReg[k]]
                       ELSE firstReg
        /\ lastExec' = NoExec
        /\ lastSchemas' = {}
        /\ UNCHANGED <<config, system_prompt, router, tasks, COUNTER, now, rawConfig, base,
                       apiVars, pc, execVars, histVars, rotVars, compVars>>

\* A caller executes a tool by name.
ExecuteCall(name, args) ==
    /\ lastExec' = [name |-> name, args |-> args, n |-> 1,
                    invoked |-> ToolRegistry_execute_invoked(tools, name),
                    result |-> ToolRegistry_execute(tools, name, args)]
    /\ UNCHANGED <<agentVars, apiVars, pc, execVars, histVars, rotVars, compVars,
                   lastReg, lastSchemas, firstReg>>

\* A caller asks for the schemas, has(name) and count().
SchemasCall ==
    /\ lastSchemas' = {[schemas |-> ToolRegistry_get_schemas(tools),
                        count |-> ToolRegistry_count(tools),
                        has |-> {k \in {"add", "boom", "ghost"} : ToolRegistry_has(tools, k)}]}
    /\ UNCHANGED <<agentVars, apiVars, pc, execVars, histVars, rotVars, compVars,
                   lastReg, lastExec, firstReg>>

RegNames == {"", "add", "boom"}
RegDescriptions == {"adds", "fails"}

\* ToolRegistry::new, and callers that register, execute and list.
InitRegistry ==
    /\ InitAgent(AgentConfig("", "", MaxIter, 0, TRUE), "", {"gemini", "codex"}, EmptyMap)
    /\ InitCallers("off", ExecuteRequest("", None, None, None, None))
    /\ InitRotatorOff
    /\ InitRegistryCallersOff
    /\ InitComponentsOff

NextRegistry ==
    \/ \E name \in RegNames, h \in Handlers, sn \in RegNames, d \in RegDescriptions :
          RegisterCall(name, h, ToolSchema(sn, d))
    \/ \E name \in {"add", "boom", "ghost"} : ExecuteCall(name, 2)
    \/ SchemasCall

SpecRegistry == InitRegistry /\ [][NextRegistry]_vars

\* C9: register decides in this order: an empty name is invalid; else a
\* non-empty schema name that differs from the name is a mismatch; else a name
\* already present is rejected; else the entry is stored under the name, with
\* the schema's name equal to it, and nothing else changes.
C9_RegisterOutcome ==
    lastReg # NoReg
    => LET a == lastReg
           mismatch == a.schema.name # "" /\ a.schema.name # a.name
       IN  /\ a.name = "" => a.res = RegErr("invalid tool")
           /\ (a.name # "" /\ mismatch) => a.res = RegErr("schema name mismatch")
           /\ (a.name # "" /\ ~mismatch /\ a.name \in DOMAIN a.before)
              => a.res = RegErr("tool already registered")
           /\ (a.name # "" /\ ~mismatch /\ a.name \notin DOMAIN a.before)
              => /\ a.res = RegOk
                 /\ DOMAIN tools = DOMAIN a.before \cup {a.name}
                 /\ tools[a.name] = [name |-> a.name, handler |-> a.handler,
                                     schema |-> ToolSchema(a.name, a.schema.description)]
                 /\ \A k \in DOMAIN a.before : tools[k] = a.before[k]

C9_Witness ==
    /\ lastReg.name = "add"
    /\ "add" \in DOMAIN lastReg.before
    /\ lastReg.schema.name = "boom"
    /\ lastReg.res = RegErr("schema name mismatch")

\* C10: a register call that fails leaves the registry as it was, so every
\* name keeps the handler and the schema of its first successful registration:
\* execute(name) answers with that handler's result and the schemas listed are
\* the original ones.
C10_FirstRegistrationFixed ==
    /\ (lastReg # NoReg /\ ~lastReg.res.ok) => tools = lastReg.before
    /\ DOMAIN tools = DOMAIN firstReg
    /\ \A k \in DOMAIN firstReg :
          /\ tools[k].handler = firstReg[k].handler
          /\ tools[k].schema = ToolSchema(k, firstReg[k].description)
    /\ (lastExec # NoExec /\ lastExec.name \in DOMAIN firstReg)
       => LET r == CallHandler(firstReg[lastExec.name].handler, lastExec.args)
          IN  /\ lastExec.result.success = r.ok
              /\ r.ok => lastExec.result.output = Some(r.val)
              /\ ~r.ok => lastExec.result.error = Some(r.err)
    /\ \A l \in lastSchemas :
          l.schemas = {ToolSchema(k, firstReg[k].description) : k \in DOMAIN firstReg}

C10_Witness ==
    /\ lastReg.name = "add"
    /\ lastReg.res = RegErr("tool already registered")
    /\ lastReg.handler = "fail"
    /\ lastReg.schema.description = "fails"
    /\ lastExec.name = "add"
    /\ lastExec.result.success
    /\ tools["add"].handler = "echo"
    /\ lastSchemas # {}

\* C11: execute(name, args) always returns a ToolResult: for a name without an
\* entry, success = false, no output and the error "tool not found", and no
\* handler is invoked; for an entry whose handler reports a reason,
\* success = false, no output and that reason as the error; otherwise
\* success = true with the handler's output and no error.
C11_ExecuteReturns ==
    lastExec # NoExec
    => LET e == lastExec
       IN  /\ e.result.success \in BOOLEAN
           /\ e.name \notin DOMAIN tools
              => /\ e.result = [success |-> FALSE, output |-> None,
                                error |-> Some("tool not found")]
                 /\ e.invoked = <<>>
           /\ e.name \in DOMAIN tools
              => LET r == CallHandler(tools[e.name].handler, e.args)
                 IN  /\ e.invoked = <<tools[e.name].handler>>
                     /\ ~r.ok => e.result = [success |-> FALSE, output |-> None,
                                             error |-> Some(r.err)]
                     /\ r.ok => e.result = [success |-> TRUE, output |-> Some(r.val),
                                            error |-> None]

C11_Witness ==
    /\ lastExec.name = "boom"
    /\ "boom" \in DOMAIN tools
    /\ tools["boom"].handler = "fail"
    /\ "add" \in DOMAIN tools
    /\ lastExec.result.error = Some("bad input")

\* ------------------------------------------------------------ ToolRegistry shared by threads
\* A faulty variant of RegistryLockFree: register does not wait for the write
\* lock, so contains_key and insert of two callers may interleave.
RegistryLockFree_unguarded(w) == TRUE

\* ToolRegistry, lines 30, 46, 83, 91: tools.write() and tools.read() are
\* granted when no writer holds the RwLock (the readers here are single steps).
RegistryLockFree(w) == w = 0

\* ToolRegistry::register, lines 19-28: the checks made before the lock; the
\* schemas passed here have an empty name, which line 24 fills in.
RaceRegister(t, name, handler) ==
    /\ reg_pc[t] = "idle"
    /\ reg_call' = [reg_call EXCEPT ![t] = [name |-> name, handler |-> handler]]
    /\ IF name = ""
       THEN /\ reg_ret' = [reg_ret EXCEPT ![t] = RegErr("invalid tool")]
            /\ reg_pc' = [reg_pc EXCEPT ![t] = "ret"]
       ELSE /\ reg_pc' = [reg_pc EXCEPT ![t] = "lock"]
            /\ UNCHANGED reg_ret
    /\ UNCHANGED <<agentVars, apiVars, pc, execVars, histVars, rotVars, regVars,
                   reg_lock, reg_obs, lastRoute, adVars, storeVars, concVars,
                   persistVars, served>>

\* ToolRegistry::register, line 30: the write lock is taken.
RaceLock(t) ==
    /\ reg_pc[t] = "lock"
    /\ RegistryLockFree(reg_lock)
    /\ reg_lock' = t
    /\ reg_pc' = [reg_pc EXCEPT ![t] = "check"]
    /\ UNCHANGED <<agentVars, apiVars, pc, execVars, histVars, rotVars, regVars,
                   reg_call, reg_ret, reg_obs, lastRoute, adVars, storeVars, concVars,
                   persistVars, served>>

\* ToolRegistry::register, lines 31-33: contains_key; a present name returns
\* the error, which drops the guard.
RaceCheck(t) ==
    /\ reg_pc[t] = "check"
    /\ IF reg_call[t].name \in DOMAIN tools
       THEN /\ reg_ret' = [reg_ret EXCEPT ![t] = RegErr("tool already registered")]
            /\ reg_lock' = 0
            /\ reg_pc' = [reg_pc EXCEPT ![t] = "ret"]
       ELSE /\ reg_pc' = [reg_pc EXCEPT ![t] = "insert"]
            /\ UNCHANGED <<reg_ret, reg_lock>>
    /\ UNCHANGED <<agentVars, apiVars, pc, execVars, histVars, rotVars, regVars,
                   reg_call, reg_obs, lastRoute, adVars, storeVars, concVars,
                   persistVars, served>>

\* ToolRegistry::register, lines 34-42: HashMap::insert, Ok(()), guard dropped.
RaceInsert(t) ==
    /\ reg_pc[t] = "insert"
    /\ LET name == reg_call[t].name
       IN  tools' = [n \in DOMAIN tools \cup {name} |->
                        IF n = name
                        THEN [name |-> name, handler |-> reg_call[t].handler,
                              schema |-> ToolSchema(name, reg_call[t].handler)]
                        ELSE tools[n]]
    /\ reg_ret' = [reg_ret EXCEPT ![t] = RegOk]
    /\ reg_lock' = 0
    /\ reg_pc' = [reg_pc EXCEPT ![t] = "ret"]
    /\ UNCHANGED <<config, system_prompt, router, tasks, COUNTER, now, rawConfig, base,
                   apiVars, pc, execVars, histVars, rotVars, regVars,
                   reg_call, reg_obs, lastRoute, adVars, storeVars, concVars,
                   persistVars, served>>

\* After register has returned, the thread calls has, execute and get_schemas
\* (lines 45-96), each under the read lock.
RaceObserve(t) ==
    /\ reg_pc[t] = "ret"
    /\ RegistryLockFree(reg_lock)
    /\ reg_obs' = [reg_obs EXCEPT ![t] =
                     {[has |-> ToolRegistry_has(tools, reg_call[t].name),
                       invoked |-> ToolRegistry_execute_invoked(tools, reg_call[t].name),
                       result |-> ToolRegistry_execute(tools, reg_call[t].name, 2),
                       schemas |-> ToolRegistry_get_schemas(tools)]}]
    /\ reg_pc' = [reg_pc EXCEPT ![t] = "done"]
    /\ UNCHANGED <<agentVars, apiVars, pc, execVars, histVars, rotVars, regVars,
                   reg_lock, reg_call, reg_ret, lastRoute, adVars, storeVars, concVars,
                   persistVars, served>>

\* ToolRegistry::new, shared by the threads.
InitRace ==
    /\ InitAgent(AgentConfig("", "", MaxIter, 0, TRUE), "", {"gemini", "codex"}, EmptyMap)
    /\ InitCallers("off", ExecuteRequest("", None, None, None, None))
    /\ InitRotatorOff
    /\ InitRegistryCallersOff
    /\ reg_lock = 0
    /\ reg_pc = [t \in Threads |-> "idle"]
    /\ reg_call = [t \in Threads |-> [name |-> "", handler |-> ""]]
    /\ reg_ret = [t \in Threads |-> RegOk]
    /\ reg_obs = [t \in Threads |-> {}]
    /\ lastRoute = NoRoute
    /\ InitAdapterOff
    /\ InitStoreOff
    /\ InitConcOff
    /\ InitPersistOff

NextRace ==
    \E t \in Threads :
        \/ \E name \in RegNames, h \in {"echo", "fail"} : RaceRegister(t, name, h)
        \/ RaceLock(t)
        \/ RaceCheck(t)
        \/ RaceInsert(t)
        \/ RaceObserve(t)

SpecRace == InitRace /\ [][NextRace]_vars

RaceReturned(t) == reg_pc[t] \in {"ret", "done"}

\* C12: once a thread's register(name, ...) has returned Ok, the name is in the
\* registry from then on: has(name) is true, execute(name, ...) invokes the
\* handler registered and get_schemas() holds the schema, and so say the calls
\* the thread makes afterwards; and of the threads that register one name that
\* was absent, exactly one gets Ok and every other "tool already registered".
C12_AtomicVisible ==
    /\ \A t \in Threads :
          (RaceReturned(t) /\ reg_ret[t].ok)
          => LET name == reg_call[t].name
             IN  /\ ToolRegistry_has(tools, name)
                 /\ ToolRegistry_execute_invoked(tools, name) = <<reg_call[t].handler>>
                 /\ ToolSchema(name, reg_call[t].handler) \in ToolRegistry_get_schemas(tools)
                 /\ \A o \in reg_obs[t] :
                       /\ o.has
                       /\ o.invoked = <<reg_call[t].handler>>
                       /\ o.result.success = CallHandler(reg_call[t].handler, 2).ok
                       /\ ToolSchema(name, reg_call[t].handler) \in o.schemas
    /\ \A name \in RegNames \ {""} :
          LET back == {t \in Threads : RaceReturned(t) /\ reg_call[t].name = name}
          IN  back # {}
              => /\ Cardinality({t \in back : reg_ret[t] = RegOk}) = 1
                 /\ \A t \in back :
                       reg_ret[t] \in {RegOk, RegErr("tool already registered")}

C12_Witness ==
    /\ reg_call[1] = [name |-> "add", handler |-> "fail"]
    /\ reg_call[2] = [name |-> "add", handler |-> "echo"]
    /\ reg_pc[1] = "done"
    /\ reg_pc[2] = "done"
    /\ reg_ret[2] = RegOk
    /\ reg_ret[1] = RegErr("tool already registered")
    /\ \A o \in reg_obs[1] : o.result.success

\* ------------------------------------------------------------ LLMRouter::complete
\* The routers: LLMRouter::new(default_provider), then register_provider for
\* some of the adapters.
Routers ==
    {[default_provider |-> d,
      providers |-> [n \in ps |-> [kind |-> n, model |-> "gemini-3-flash-preview"]]] :
        d \in {"gemini", "codex", "ghost"}, ps \in SUBSET {"gemini", "codex", "opus"}}

\* The requests: with and without a provider, with and without a model.
RouterRequests ==
    {[messages |-> <<Message("user", "hi")>>, tools |-> None, temperature |-> None,
      model |-> mo, provider |-> pr] :
        mo \in {None, Some("gemini-3-pro-preview"), Some("gpt")},
        pr \in {None, Some("gemini"), Some("codex"), Some("opus"), Some("ghost")}}

\* A caller hands a request to LLMRouter::complete; net is what the network
\* attempts of an adapter come to.
RouterCall(request, net) ==
    /\ lastRoute.n < MaxRouteCalls
    /\ lastRoute' = [request |-> request, net |-> net,
                     resp |-> LLMRouter_complete(router, request, net),
                     calls |-> LLMRouter_adapter_calls(router, request),
                     n |-> lastRoute.n + 1]
    /\ UNCHANGED <<agentVars, apiVars, pc, execVars, histVars, rotVars, regVars,
                   raceVars, adVars, storeVars, concVars, persistVars, served>>

InitRouter ==
    /\ LET a == Agent_new("", AgentConfig("", "", MaxIter, 0, TRUE), "", {"gemini"})
       IN  /\ config = a.config
           /\ system_prompt = a.system_prompt
           /\ tools = EmptyMap
           /\ tasks = a.tasks
           /\ rawConfig = AgentConfig("", "", MaxIter, 0, TRUE)
           /\ base = [config |-> a.config, system_prompt |-> a.system_prompt]
    /\ router \in Routers
    /\ COUNTER = 1
    /\ now = 0
    /\ agentLock = 0
    /\ InitCallers("off", ExecuteRequest("", None, None, None, None))
    /\ InitRotatorOff
    /\ InitRegistryCallersOff
    /\ InitComponentsOff

NextRouter == \E request \in RouterRequests, net \in LeanOutcomes : RouterCall(request, net)

SpecRouter == InitRouter /\ [][NextRouter]_vars

\* What the adapter registered under a name answers to a request.
AdapterAnswer(rtr, name, request, net) ==
    CASE rtr.providers[name].kind = "gemini" ->
             GeminiAdapter_complete(rtr.providers[name], request, net)
      [] rtr.providers[name].kind = "codex" -> CodexAdapter_complete
      [] OTHER -> OpusAdapter_complete

\* C13: whatever calls came before, complete resolves the provider of the
\* request at hand, its own if it names one and the router's default if not,
\* and when an adapter is registered under that name the request goes to that
\* adapter and to no other: one adapter call, whose answer is the result.
C13_RoutesByName ==
    lastRoute # NoRoute
    => LET r == lastRoute
           provider == IF r.request.provider # None THEN r.request.provider[1]
                       ELSE router.default_provider
       IN  provider \in DOMAIN router.providers
           => /\ r.calls = <<provider>>
              /\ r.resp = AdapterAnswer(router, provider, r.request, r.net)

C13_Witness ==
    /\ lastRoute.n = 2
    /\ router.default_provider = "gemini"
    /\ DOMAIN router.providers = {"gemini", "codex", "opus"}
    /\ lastRoute.request.provider = Some("codex")
    /\ lastRoute.calls = <<"codex">>
    /\ lastRoute.resp.err.code = "not_implemented"

\* C14: a request whose provider has no adapter is answered by the router with
\* the error provider_missing, not retryable, and no adapter is called; in
\* Agent::execute that ends the execution: no further request is made, the
\* result has success = false and the task is Failed with the error's message.
C14_ProviderMissing ==
    \A p \in Procs : \A k \in 1 .. Len(sent[p]) :
        LET provider == UnwrapOr(sent[p][k].provider, router.default_provider)
        IN  provider \notin DOMAIN router.providers
            => /\ got[p][k] = ErrResponse(ProviderError("provider_missing",
                                  "provider not registered: " \o provider, FALSE))
               /\ routed[p][k] = <<>>
               /\ Len(sent[p]) = k
               /\ Returned(p)
               /\ ~result[p].success
               /\ IsSome(tasks)
                  => TaskIs(p, "Failed", None,
                            Some("provider not registered: " \o provider))

C14_Witness ==
    /\ pc[1] = "h_done"
    /\ req[1].provider = Some("ghost")
    /\ Len(sent[1]) = 1
    /\ got[1][1].err.code = "provider_missing"
    /\ ~response[1].success
    /\ pc[2] = "h_done"
    /\ response[2].success

\* ------------------------------------------------------------ GeminiAdapter::complete
\* GeminiAdapter::new: an empty model means the default one.
GeminiAdapter_new(cfg) ==
    [cfg EXCEPT !.model = IF @ = "" THEN "gemini-3-flash-preview" ELSE @]

\* A faulty variant of ModelAllowed: the allow-list is not enforced.
ModelAllowed_any(model) == TRUE

\* GeminiAdapter::complete, line 52.
ModelAllowed(model) == model \in GEMINI_ALLOWED_MODELS

\* A faulty variant of AttemptsLeft: one attempt more than there are credentials.
AttemptsLeft_one_more(i, tries) == i <= tries

\* GeminiAdapter::complete, line 67: for _ in 0..tries, after i attempts.
AttemptsLeft(i, tries) == i < tries

\* Rotator::next, as one step of a single caller: the key and the cursor after.
Rotator_next(keys, idx) ==
    IF keys = <<>> THEN [key |-> None, next |-> idx]
    ELSE [key |-> Some(keys[(idx % Len(keys)) + 1]), next |-> idx + 1]

\* send_request, lines 143-175: what one attempt over the wire may come to.
AttemptOutcomes ==
    {ErrResponse(ProviderError("auth_error", "key rejected", TRUE)),
     ErrResponse(ProviderError("server_error", "unavailable", TRUE)),
     ErrResponse(ProviderError("api_error", "bad request", FALSE)),
     OkResponse("Done.", <<>>)}

\* GeminiAdapter::complete, lines 47-66: the model is resolved and checked,
\* then the number of tries; the attempt loop starts with no last_err.
AdapterCall(request) ==
    /\ ad_pc = "idle"
    /\ ad_calls < MaxCompletes
    /\ ad_calls' = ad_calls + 1
    /\ ad_req' = request
    /\ ad_attempts' = <<>>
    /\ ad_last_err' = None
    /\ ad_i' = 0
    /\ LET model == UnwrapOr(request.model, ad_cfg.model)
           tries == Len(ad_cfg.api_keys)
       IN  /\ ad_model' = model
           /\ IF ~ModelAllowed(model)
              THEN /\ ad_result' = ErrResponse(ProviderError("invalid_model",
                                        "model not allowed: " \o model, FALSE))
                   /\ UNCHANGED <<ad_pc, ad_tries>>
              ELSE IF tries = 0
              THEN /\ ad_result' = ErrResponse(ProviderError("auth_error",
                                        "no Gemini API keys", FALSE))
                   /\ ad_tries' = tries
                   /\ UNCHANGED ad_pc
              ELSE /\ ad_tries' = tries
                   /\ ad_pc' = "loop"
                   /\ UNCHANGED ad_result
    /\ UNCHANGED <<agentVars, apiVars, pc, execVars, histVars, rotVars, regVars,
                   raceVars, lastRoute, ad_cfg, storeVars, concVars,
                   persistVars, served>>

\* GeminiAdapter::complete, lines 67-75: one pass of the loop: the rotator's
\* next key, one send_request with it; Ok returns, Err is kept as last_err.
AdapterAttempt(outcome) ==
    /\ ad_pc = "loop"
    /\ AttemptsLeft(ad_i, ad_tries)
    /\ LET n == Rotator_next(rot_keys, rot_next)
       IN  IF n.key = None
           THEN /\ ad_pc' = "fail"
                /\ UNCHANGED <<rot_next, rot_log, ad_attempts, ad_last_err, ad_i,
                               ad_result>>
           ELSE /\ rot_next' = n.next
                /\ rot_log' = Append(rot_log, n.key[1])
                /\ ad_attempts' = Append(ad_attempts, [key |-> n.key[1], out |-> outcome])
                /\ IF outcome.ok
                   THEN /\ ad_result' = outcome
                        /\ ad_pc' = "idle"
                        /\ UNCHANGED <<ad_last_err, ad_i>>
                   ELSE /\ ad_last_err' = Some(outcome.err)
                        /\ ad_i' = ad_i + 1
                        /\ UNCHANGED <<ad_result, ad_pc>>
    /\ UNCHANGED <<agentVars, apiVars, pc, execVars, histVars, regVars, raceVars,
                   lastRoute, rot_keys, rot_mutex, rot_pc, rot_key, rot_calls,
                   ad_cfg, ad_req, ad_model, ad_tries, ad_calls, storeVars, concVars,
                   persistVars, served>>

\* GeminiAdapter::complete, line 77: the loop is over without an Ok.
AdapterGiveUp ==
    /\ \/ ad_pc = "loop" /\ ~AttemptsLeft(ad_i, ad_tries)
       \/ ad_pc = "fail"
    /\ ad_result' = ErrResponse(UnwrapOr(ad_last_err,
                                         ProviderError("api_error", "request failed", TRUE)))
    /\ ad_pc' = "idle"
    /\ UNCHANGED <<agentVars, apiVars, pc, execVars, histVars, rotVars, regVars, raceVars,
                   lastRoute, ad_cfg, ad_req, ad_model, ad_tries, ad_i, ad_last_err,
                   ad_attempts, ad_calls, storeVars, concVars,
                   persistVars, served>>

\* GeminiAdapter::new over 0 .. MaxKeys credentials and a caller of complete.
InitAdapter ==
    /\ InitAgentIdle
    /\ InitRegistryCallersOff
    /\ InitRaceOff
    /\ lastRoute = NoRoute
    /\ \E m \in 0 .. MaxKeys, mo \in {"", "gemini-2"} :
          /\ ad_cfg = GeminiAdapter_new([api_keys |-> [i \in 1 .. m |-> KeyName(i)],
                                         model |-> mo])
          /\ rot_keys = ad_cfg.api_keys
    /\ rot_next = 0
    /\ rot_mutex = 0
    /\ rot_pc = [t \in Threads |-> "off"]
    /\ rot_key = [t \in Threads |-> None]
    /\ rot_calls = [t \in Threads |-> 0]
    /\ rot_log = <<>>
    /\ ad_pc = "idle"
    /\ ad_req = NoRoute.request
    /\ ad_model = ""
    /\ ad_tries = 0
    /\ ad_i = 0
    /\ ad_last_err = None
    /\ ad_attempts = <<>>
    /\ ad_result = ErrResponse(NoError)
    /\ ad_calls = 0
    /\ InitStoreOff
    /\ InitConcOff
    /\ InitPersistOff

NextAdapter ==
    \/ \E request \in RouterRequests : AdapterCall(request)
    \/ \E outcome \in AttemptOutcomes : AdapterAttempt(outcome)
    \/ AdapterGiveUp

SpecAdapter == InitAdapter /\ [][NextAdapter]_vars

\* The call of complete made last has returned.
AdapterReturned == ad_calls > 0 /\ ad_pc = "idle"

\* C15: a complete call with M >= 1 credentials and a model allowed makes at
\* most M attempts, each with the key the rotator hands out next; an attempt
\* follows failed attempts only; the call returns the first Ok attempt's
\* response, or, when M attempts failed, the error of the last of them.
C15_AttemptsPerCredential ==
    (ad_calls > 0 /\ Len(ad_cfg.api_keys) >= 1 /\ ModelAllowed(ad_model))
    => LET n == Len(ad_attempts)
           M == Len(ad_cfg.api_keys)
       IN  /\ n <= M
           /\ rot_next = Len(rot_log)
           /\ \A j \in 1 .. n :
                 /\ ad_attempts[j].key = rot_log[Len(rot_log) - n + j]
                 /\ ad_attempts[j].key = rot_keys[((rot_next - n + j - 1) % M) + 1]
                 /\ j < n => ~ad_attempts[j].out.ok
           /\ AdapterReturned
              => /\ n >= 1
                 /\ ad_result = ad_attempts[n].out
                 /\ ~ad_result.ok => n = M

C15_Witness ==
    /\ AdapterReturned
    /\ ad_calls = 2
    /\ Len(ad_cfg.api_keys) = 2
    /\ Len(ad_attempts) = 2
    /\ ad_attempts[1].key = "key2"
    /\ ad_attempts[2].key = "key1"
    /\ ~ad_attempts[1].out.ok
    /\ ad_result.ok

\* C16: inside the attempt loop the error's retryable flag decides: every
\* attempt that is followed by another one failed with a retryable error, and
\* a call whose last attempt failed returns that attempt's error.
C16_RetryableConsulted ==
    (ad_calls > 0 /\ ModelAllowed(ad_model))
    => LET n == Len(ad_attempts)
       IN  /\ \A j \in 1 .. n - 1 :
                 ~ad_attempts[j].out.ok /\ ad_attempts[j].out.err.retryable
           /\ (AdapterReturned /\ n >= 1 /\ ~ad_attempts[n].out.ok)
              => ad_result = ad_attempts[n].out

\* C17: a complete call whose model (the request's, else the adapter's) is not
\* in the allow-list returns the error invalid_model, not retryable, in that
\* one step: no attempt is made and the rotator's cursor stays where it was.
C17_InvalidModelFailsFast ==
    [][(ad_calls' = ad_calls + 1
        /\ UnwrapOr(ad_req'.model, ad_cfg.model) \notin GEMINI_ALLOWED_MODELS)
       => /\ ad_result' = ErrResponse(ProviderError("invalid_model",
                  "model not allowed: " \o UnwrapOr(ad_req'.model, ad_cfg.model), FALSE))
          /\ ad_pc' = "idle"
          /\ ad_attempts' = <<>>
          /\ rot_next' = rot_next
          /\ rot_log' = rot_log]_vars

C17_Witness ==
    /\ AdapterReturned
    /\ ad_calls = 2
    /\ ad_req.model = Some("gpt")
    /\ ad_result.err.code = "invalid_model"
    /\ ad_attempts = <<>>
    /\ rot_next = 2
    /\ Len(ad_cfg.api_keys) = 2

\* C18: when a request is for provider "gemini" and no gemini credentials are
\* configured (build_llm_router then registers no gemini adapter), execute
\* returns success = false and the task is Failed with the message of the
\* ProviderError it got, whose code is auth_error, after at most one attempt.
C18_NoCredentialsAuthError ==
    \A p \in Procs : \A k \in 1 .. Len(sent[p]) :
        (sent[p][k].provider = Some("gemini") /\ "gemini" \notin DOMAIN router.providers)
        => /\ ~got[p][k].ok
           /\ got[p][k].err.code = "auth_error"
           /\ Len(routed[p][k]) <= 1
           /\ Returned(p)
           /\ ~result[p].success
           /\ TaskIs(p, "Failed", None, Some(got[p][k].err.message))

\* ------------------------------------------------------------ the task of an execution
\* The positions in the log of the calls of one kind made by p's execution.
EventsOf(p, op) == {i \in 1 .. Len(taskLog) : taskLog[i].by = p /\ taskLog[i].op = op}

\* C19: every task of an execution goes Pending, Running, then Completed or
\* Failed: the store call that makes a task Completed or Failed comes after a
\* call that made the same task Running.
C19_RunningBeforeTerminal ==
    \A i \in 1 .. Len(taskLog) :
        taskLog[i].status \in {"Completed", "Failed"}
        => \E j \in 1 .. i - 1 :
              /\ taskLog[j].id = taskLog[i].id
              /\ taskLog[j].status = "Running"

\* C20: with a store attached an execution creates one task, its own, and
\* updates it once, when it returns, to Completed or Failed, whatever the path
\* it returns by; it makes no update before, none after, and none to the task
\* of another execution.
C20_OneCreateOneUpdate ==
    /\ \A p, q \in Procs :
          (p # q /\ IsSome(task_id[p])) => task_id[p] # task_id[q]
    /\ \A i \in 1 .. Len(taskLog) : Some(taskLog[i].id) = task_id[taskLog[i].by]
    /\ \A p \in Procs :
          /\ pc[p] \in {"h_idle", "h_lock", "x_start"}
             => EventsOf(p, "create") = {} /\ EventsOf(p, "update") = {}
          /\ (IsSome(tasks) /\ pc[p] = "x_loop")
             => Cardinality(EventsOf(p, "create")) = 1 /\ EventsOf(p, "update") = {}
          /\ (IsSome(tasks) /\ IsSome(task_id[p]) /\ Returned(p))
             => /\ Cardinality(EventsOf(p, "create")) = 1
                /\ Cardinality(EventsOf(p, "update")) = 1
                /\ \A i \in EventsOf(p, "update") :
                      /\ taskLog[i].status \in {"Completed", "Failed"}
                      /\ taskLog[i].status = Unwrap(tasks)[taskLog[i].id].status
                      /\ \A j \in EventsOf(p, "create") : j < i

C20_Witness ==
    /\ pc[1] = "h_done"
    /\ pc[2] = "h_done"
    /\ Len(taskLog) = 4
    /\ taskLog[2].status = "Failed"
    /\ taskLog[4].status = "Completed"
    /\ taskLog[2].by # taskLog[4].by
    /\ Len(sent[taskLog[2].by]) = MaxIter

\* ------------------------------------------------------------ TaskStore and its callers
\* TaskStore::create, line 28, next_id line 115: the count is drawn.
CreateCount(t, s) ==
    /\ st_pc[t] = "idle"
    /\ Len(st_made) + Cardinality({u \in Threads : st_pc[u] # "idle"}) < MaxTasks
    /\ st_loc' = [st_loc EXCEPT ![t] = [store |-> s, count |-> COUNTER, id |-> ""]]
    /\ COUNTER' = FetchAdd(COUNTER)
    /\ st_pc' = [st_pc EXCEPT ![t] = "id"]
    /\ UNCHANGED <<config, system_prompt, router, tools, tasks, now, rawConfig, base,
                   apiVars, pc, execVars, histVars, rotVars, regVars, raceVars,
                   lastRoute, adVars, st_maps, st_made, st_last, st_updates, concVars,
                   persistVars, served>>

\* next_id, line 116: the id is formatted from the clock and the count.
CreateId(t) ==
    /\ st_pc[t] = "id"
    /\ st_loc' = [st_loc EXCEPT ![t].id = next_id(now, st_loc[t].count)]
    /\ st_pc' = [st_pc EXCEPT ![t] = "insert"]
    /\ UNCHANGED <<agentVars, apiVars, pc, execVars, histVars, rotVars, regVars, raceVars,
                   lastRoute, adVars, st_maps, st_made, st_last, st_updates, concVars,
                   persistVars, served>>

\* TaskStore::create, lines 29-42: the task is built, inserted under the write
\* lock and returned.
CreateInsert(t) ==
    /\ st_pc[t] = "insert"
    /\ LET s == st_loc[t].store
           id == st_loc[t].id
           after == TaskStore_create(st_maps[s], id, "job", now)
       IN  /\ st_maps' = [st_maps EXCEPT ![s] = after]
           /\ st_made' = Append(st_made, [store |-> s, by |-> t, task |-> after[id]])
           /\ st_last' = [NoStoreCall EXCEPT !.op = "create", !.store = s, !.id = id,
                                             !.at = now, !.before = st_maps[s],
                                             !.ret = <<after[id]>>]
    /\ st_pc' = [st_pc EXCEPT ![t] = "idle"]
    /\ UNCHANGED <<agentVars, apiVars, pc, execVars, histVars, rotVars, regVars, raceVars,
                   lastRoute, adVars, st_loc, st_updates, concVars,
                   persistVars, served>>

\* The updates the callers make: status, output, error.
Updates ==
    {<<"Pending", None, None>>, <<"Running", None, None>>,
     <<"Completed", Some("out"), None>>, <<"Failed", None, Some("err")>>}

\* The ids the callers pass: those of the tasks created, in whatever store, and
\* one that no store ever issued.
KnownIds == UNION {DOMAIN st_maps[s] : s \in Stores} \cup {"task_0_0"}

\* TaskStore::update, one call; the calls are counted, and the tasks given a
\* terminal status remembered.
UpdateCall(s, id, u) ==
    /\ st_updates.n < MaxUpdates
    /\ st_maps' = [st_maps EXCEPT ![s] = TaskStore_update(@, id, u[1], u[2], u[3], now)]
    /\ st_last' = [NoStoreCall EXCEPT
                     !.op = "update", !.store = s, !.id = id, !.status = u[1],
                     !.output = u[2], !.error = u[3], !.at = now, !.before = st_maps[s],
                     !.ret = TaskStore_update_result(st_maps[s], id, u[1], u[2], u[3], now)]
    /\ st_updates' = [n |-> st_updates.n + 1,
                      ended |-> IF u[1] \in {"Completed", "Failed"}
                                THEN st_updates.ended \cup {<<s, id>>}
                                ELSE st_updates.ended]
    /\ UNCHANGED <<agentVars, apiVars, pc, execVars, histVars, rotVars, regVars, raceVars,
                   lastRoute, adVars, st_pc, st_loc, st_made, concVars,
                   persistVars, served>>

\* TaskStore::list, one call.
ListCall(s, limit) ==
    /\ \E q \in TaskStore_list(st_maps[s], limit) :
          st_last' = [NoStoreCall EXCEPT !.op = "list", !.store = s, !.limit = limit,
                                         !.at = now, !.before = st_maps[s], !.ret = q]
    /\ UNCHANGED <<agentVars, apiVars, pc, execVars, histVars, rotVars, regVars, raceVars,
                   lastRoute, adVars, st_maps, st_pc, st_loc, st_made, st_updates,
                   concVars, persistVars, served>>

\* Utc::now() moves on.
Tick ==
    /\ now < MaxClock
    /\ now' = now + 1
    /\ UNCHANGED <<config, system_prompt, router, tools, tasks, COUNTER, rawConfig, base,
                   apiVars, pc, execVars, histVars, rotVars, regVars, compVars>>

\* TaskStore::create by a caller of its own, lines 27-43 with next_id.
CreateCall(s) ==
    /\ Len(st_made) < MaxTasks
    /\ LET id == next_id(now, COUNTER)
           after == TaskStore_create(st_maps[s], id, "job", now)
       IN  /\ st_maps' = [st_maps EXCEPT ![s] = after]
           /\ st_made' = Append(st_made, [store |-> s, by |-> 0, task |-> after[id]])
           /\ st_last' = [NoStoreCall EXCEPT !.op = "create", !.store = s, !.id = id,
                                             !.at = now, !.before = st_maps[s],
                                             !.ret = <<after[id]>>]
    /\ COUNTER' = FetchAdd(COUNTER)
    /\ UNCHANGED <<config, system_prompt, router, tools, tasks, now, rawConfig, base,
                   apiVars, pc, execVars, histVars, rotVars, regVars, raceVars,
                   lastRoute, adVars, st_pc, st_loc, st_updates, concVars,
                   persistVars, served>>

\* Two TaskStore::new(false, None) in one process and threads that create
\* tasks in them.
InitStore ==
    /\ InitAgentIdle
    /\ InitRotatorOff
    /\ InitRegistryCallersOff
    /\ InitRaceOff
    /\ lastRoute = NoRoute
    /\ InitAdapterOff
    /\ InitConcOff
    /\ InitPersistOff
    /\ st_maps = [s \in Stores |-> EmptyMap]
    /\ st_pc = [t \in Threads |-> "idle"]
    /\ st_loc = [t \in Threads |-> [store |-> "", count |-> 0, id |-> ""]]
    /\ st_made = <<>>
    /\ st_last = NoStoreCall
    /\ st_updates = [n |-> 0, ended |-> {}]

NextStore ==
    \/ \E t \in Threads, s \in Stores : CreateCount(t, s)
    \/ \E t \in Threads : CreateId(t)
    \/ \E t \in Threads : CreateInsert(t)
    \/ Tick

SpecStore == InitStore /\ [][NextStore]_vars

\* One TaskStore and one caller that creates, updates and lists.
InitStoreOps ==
    /\ InitAgentIdle
    /\ InitRotatorOff
    /\ InitRegistryCallersOff
    /\ InitComponentsOff

NextStoreOps ==
    \/ CreateCall("agent")
    \/ \E id \in KnownIds, u \in Updates : UpdateCall("agent", id, u)
    \/ \E limit \in {0, 1, MaxTasks} : ListCall("agent", limit)
    \/ Tick

SpecStoreOps == InitStoreOps /\ [][NextStoreOps]_vars

\* C21: the task create returns is Pending, with no output, no error and no
\* completed_at, and is stored under its id; and the ids of the tasks created
\* in the process differ from one another, whichever thread and store made them.
C21_FreshPendingTask ==
    /\ \A i \in 1 .. Len(st_made) :
          /\ st_made[i].task.status = "Pending"
          /\ st_made[i].task.output = None
          /\ st_made[i].task.error = None
          /\ st_made[i].task.completed_at = None
          /\ \A j \in 1 .. Len(st_made) : i # j => st_made[i].task.id # st_made[j].task.id
    /\ st_last.op = "create"
       => /\ st_last.id \in DOMAIN st_maps[st_last.store]
          /\ st_maps[st_last.store][st_last.id] = st_last.ret[1]
          /\ st_last.ret[1].id = st_last.id

C21_Witness ==
    /\ Len(st_made) = 2
    /\ st_made[1].store # st_made[2].store
    /\ st_made[1].by # st_made[2].by
    /\ st_made[1].task.created_at = st_made[2].task.created_at
    /\ st_last.op = "create"

\* The store an update or list call was made on, as it is now.
StoreNow == st_maps[st_last.store]

UpdatedKnown == st_last.op = "update" /\ st_last.id \in DOMAIN st_last.before
Terminal(status) == status \in {"Completed", "Failed"}

\* C22: update with an id that is not in the store returns None and leaves the
\* store as it was: no task is added and none is changed.
C22_UnknownIdNoOp ==
    (st_last.op = "update" /\ st_last.id \notin DOMAIN st_last.before)
    => /\ st_last.ret = None
       /\ StoreNow = st_last.before

C22_Witness ==
    /\ st_last.op = "update"
    /\ st_last.id = "task_0_0"
    /\ st_last.status = "Completed"
    /\ Cardinality(DOMAIN st_last.before) = 2

\* C23: an update to Completed or Failed sets completed_at (to the time of the
\* call), an update to Pending or Running leaves completed_at as it was; and a
\* task that no update has made Completed or Failed has no completed_at.
C23_CompletedAtOnTerminal ==
    /\ UpdatedKnown
       => LET was == st_last.before[st_last.id]
              is == StoreNow[st_last.id]
          IN  /\ Terminal(st_last.status) => is.completed_at = Some(st_last.at)
              /\ ~Terminal(st_last.status) => is.completed_at = was.completed_at
    /\ \A id \in DOMAIN st_maps["agent"] :
          <<"agent", id>> \notin st_updates.ended
          => st_maps["agent"][id].completed_at = None

C23_Witness ==
    /\ UpdatedKnown
    /\ st_last.status = "Running"
    /\ st_last.before[st_last.id].status = "Failed"
    /\ st_last.at = 1
    /\ StoreNow[st_last.id].completed_at = Some(0)

\* C24: an update replaces the output only when it supplies one and the error
\* only when it supplies one, and never changes id, instruction or created_at.
C24_OutputErrorKept ==
    UpdatedKnown
    => LET was == st_last.before[st_last.id]
           is == StoreNow[st_last.id]
       IN  /\ is.output = (IF st_last.output # None THEN st_last.output ELSE was.output)
           /\ is.error = (IF st_last.error # None THEN st_last.error ELSE was.error)
           /\ is.id = was.id
           /\ is.instruction = was.instruction
           /\ is.created_at = was.created_at
           /\ is.status = st_last.status
           /\ st_last.ret = Some(is)
           /\ \A other \in DOMAIN st_last.before \ {st_last.id} :
                 StoreNow[other] = st_last.before[other]

C24_Witness ==
    /\ UpdatedKnown
    /\ st_last.status = "Pending"
    /\ st_last.output = None
    /\ st_last.before[st_last.id].output = Some("out")
    /\ StoreNow[st_last.id].output = Some("out")
    /\ st_last.at = 1
    /\ st_last.before[st_last.id].created_at = 0

\* C25: list(limit) returns min(limit, number of tasks) tasks of the store, no
\* task twice, newest first, and none of the tasks left out was created later
\* than one returned; list(0) returns the empty list.
C25_ListNewestFirst ==
    st_last.op = "list"
    => LET q == st_last.ret
           all == {st_last.before[id] : id \in DOMAIN st_last.before}
           n == Cardinality(all)
           listed == {q[i] : i \in 1 .. Len(q)}
       IN  /\ Len(q) = (IF st_last.limit < n THEN st_last.limit ELSE n)
           /\ listed \subseteq all
           /\ \A i, j \in 1 .. Len(q) : i # j => q[i].id # q[j].id
           /\ \A i \in 1 .. Len(q) - 1 : q[i].created_at >= q[i + 1].created_at
           /\ \A x \in all \ listed : \A y \in listed : x.created_at <= y.created_at
           /\ st_last.limit = 0 => q = <<>>

C25_Witness ==
    /\ st_last.op = "list"
    /\ st_last.limit = 1
    /\ Cardinality(DOMAIN st_last.before) = 2
    /\ Len(st_last.ret) = 1
    /\ st_last.ret[1].created_at = 1
    /\ \E id \in DOMAIN st_last.before : st_last.before[id].created_at = 0

\* ------------------------------------------------------------ the execute interface
\* C26: every response of /execute that reports a failure has the shape of a
\* success, with success = false, an empty output and a diagnostic message
\* that is not empty in its error field.
C26_FailureCarriesDiagnostic ==
    \A p \in Procs :
        (pc[p] = "h_done" /\ ~response[p].success)
        => /\ response[p].output = ""
           /\ IsSome(response[p].error)
           /\ Unwrap(response[p].error) # ""

\* An execution during which other threads register tools (ToolRegistry takes
\* &self and guards its map with an RwLock).
InitLive ==
    /\ \E reg \in {EmptyMap, StdTools} :
          InitAgent(AgentConfig("", "", MaxIter, 0, TRUE), "", {"gemini", "codex"}, reg)
    /\ InitCallers("x_start", ExecuteRequest("What is 2+2?", None, None, None, None))
    /\ InitRotatorOff
    /\ InitRegistryCallersOff
    /\ InitComponentsOff

NextLive ==
    \/ AgentStart(1)
    \/ \E net \in LeanOutcomes : AgentIterate(1, net)
    \/ AgentExhaust(1)
    \/ \E name \in {"add", "late"} : RegisterCall(name, "echo", ToolSchema("", "adds"))

SpecLive == InitLive /\ [][NextLive]_vars

\* C27: the tools of every request of one execution are the value computed on
\* entry: the same in all of them, absent when the registry was empty then and
\* its schemas otherwise, whatever is registered while the execution runs.
C27_SchemasComputedOnce ==
    \A p \in Procs : \A k \in 1 .. Len(sent[p]) :
        /\ sent[p][k].tools = sent[p][1].tools
        /\ sent[p][k].tools = tool_schemas[p]
        /\ startTools[p] = EmptyMap <=> sent[p][k].tools = None
        /\ startTools[p] # EmptyMap
           => sent[p][k].tools = Some(ToolRegistry_get_schemas(startTools[p]))

C27_Witness ==
    /\ Len(sent[1]) = 2
    /\ startTools[1] = EmptyMap
    /\ sent[1][2].tools = None
    /\ DOMAIN tools = {"add", "late"}
    /\ Len(toolLog[1]) = 1

\* C28: no step of execute changes the agent's configuration, its system
\* prompt, its router or its tool registry; what it writes is the task store.
C28_OnlyTaskStoreWritten ==
    [][/\ config' = config
       /\ system_prompt' = system_prompt
       /\ router' = router
       /\ tools' = tools]_vars

C28_Witness ==
    /\ pc[1] = "x_done"
    /\ Len(sent[1]) = MaxIter
    /\ Len(taskLog) = 2
    /\ taskLog[2].status = "Failed"
    /\ system_prompt = "Be brief."
    /\ tools = StdTools
    /\ AllHaveCalls(got[1], MaxIter)

\* C29: in every state of a registry each entry's key, name and schema name
\* are one non-empty name, the schemas listed carry distinct names, and
\* count() is the number of register calls that succeeded.
C29_NamesUnique ==
    /\ \A k \in DOMAIN tools :
          k # "" /\ tools[k].name = k /\ tools[k].schema.name = k
    /\ \A a, b \in ToolRegistry_get_schemas(tools) : a.name = b.name => a = b
    /\ Cardinality(ToolRegistry_get_schemas(tools)) = ToolRegistry_count(tools)
    /\ ToolRegistry_count(tools) = lastReg.oks
    /\ \A l \in lastSchemas :
          /\ l.count = lastReg.oks
          /\ Cardinality(l.schemas) = l.count
          /\ \A a, b \in l.schemas : a.name = b.name => a = b

C29_Witness ==
    /\ lastReg.oks = 2
    /\ lastReg.res = RegErr("tool already registered")
    /\ lastSchemas = {}
    /\ ToolRegistry_count(tools) = 2
    /\ tools["add"].schema.description = tools["boom"].schema.description

\* ------------------------------------------------------------ one adapter, many callers
\* GeminiAdapter::complete, lines 47-66, by thread t with an allowed model:
\* the number of tries is read; with no credential the call returns at once.
ConcCall(t) ==
    /\ ca_pc[t] = "idle"
    /\ ca_pc' = [ca_pc EXCEPT ![t] = IF Len(rot_keys) = 0 THEN "done" ELSE "loop"]
    /\ ca_i' = [ca_i EXCEPT ![t] = 0]
    /\ ca_used' = [ca_used EXCEPT ![t] = <<>>]
    /\ UNCHANGED <<agentVars, apiVars, pc, execVars, histVars, rotVars, regVars,
                   raceVars, lastRoute, adVars, storeVars, persistVars, served>>

\* GeminiAdapter::complete, lines 67-75, by thread t: the shared rotator's next
\* key (Rotator::next holds the cursor's mutex for the whole of its read and
\* increment), then one send_request with it.
ConcAttempt(t, outcome) ==
    /\ ca_pc[t] = "loop"
    /\ AttemptsLeft(ca_i[t], Len(rot_keys))
    /\ LET n == Rotator_next(rot_keys, rot_next)
       IN  /\ IsSome(n.key)
           /\ rot_next' = n.next
           /\ rot_log' = Append(rot_log, Unwrap(n.key))
           /\ ca_used' = [ca_used EXCEPT ![t] = Append(@, Unwrap(n.key))]
    /\ IF outcome.ok
       THEN /\ ca_pc' = [ca_pc EXCEPT ![t] = "done"]
            /\ UNCHANGED ca_i
       ELSE /\ ca_i' = [ca_i EXCEPT ![t] = @ + 1]
            /\ UNCHANGED ca_pc
    /\ UNCHANGED <<agentVars, apiVars, pc, execVars, histVars, regVars, raceVars,
                   lastRoute, rot_keys, rot_mutex, rot_pc, rot_key, rot_calls,
                   adVars, storeVars, persistVars, served>>

\* GeminiAdapter::complete, line 77, by thread t: the loop is over without an Ok.
ConcGiveUp(t) ==
    /\ ca_pc[t] = "loop"
    /\ ~AttemptsLeft(ca_i[t], Len(rot_keys))
    /\ ca_pc' = [ca_pc EXCEPT ![t] = "done"]
    /\ UNCHANGED <<agentVars, apiVars, pc, execVars, histVars, rotVars, regVars,
                   raceVars, lastRoute, adVars, storeVars, ca_i, ca_used,
                   persistVars, served>>

\* One GeminiAdapter over 0 .. MaxKeys credentials, behind an Arc, and the
\* threads that call complete on it.
InitAdapterConc ==
    /\ InitAgentIdle
    /\ InitRegistryCallersOff
    /\ InitRaceOff
    /\ lastRoute = NoRoute
    /\ InitAdapterOff
    /\ InitStoreOff
    /\ \E m \in 0 .. MaxKeys : rot_keys = [i \in 1 .. m |-> KeyName(i)]
    /\ rot_next = 0
    /\ rot_mutex = 0
    /\ rot_pc = [t \in Threads |-> "off"]
    /\ rot_key = [t \in Threads |-> None]
    /\ rot_calls = [t \in Threads |-> 0]
    /\ rot_log = <<>>
    /\ ca_pc = [t \in Threads |-> "idle"]
    /\ ca_i = [t \in Threads |-> 0]
    /\ ca_used = [t \in Threads |-> <<>>]
    /\ InitPersistOff

NextAdapterConc ==
    \E t \in Threads :
        \/ ConcCall(t)
        \/ \E outcome \in AttemptOutcomes : ConcAttempt(t, outcome)
        \/ ConcGiveUp(t)

SpecAdapterConc == InitAdapterConc /\ [][NextAdapterConc]_vars

\* C30: the credentials of the attempts of one complete call are pairwise
\* distinct, also when other calls draw from the same rotator meanwhile.
C30_NoCredentialTwice ==
    \A t \in Threads : \A i, j \in 1 .. Len(ca_used[t]) :
        ca_used[t][i] = ca_used[t][j] => i = j

\* ------------------------------------------------------------ send_request
\* What the wire answers to one request: a transport failure of reqwest (its
\* text), or an HTTP status with a body.
WireStatuses == {200, 400, 401, 403, 429, 503}
WireBodies == {"{}", "denied", "Quota exceeded", "RESOURCE_EXHAUSTED"}
WireInputs ==
    {[transport |-> e, status |-> 0, body |-> ""] :
        e \in {"connection refused", "operation timed out"}}
    \cup {[transport |-> "", status |-> st, body |-> b] :
             st \in WireStatuses, b \in WireBodies}

\* str::to_lowercase and str::contains over the bodies above.
to_lowercase(text) ==
    CASE text = "Quota exceeded" -> "quota exceeded"
      [] text = "RESOURCE_EXHAUSTED" -> "resource_exhausted"
      [] OTHER -> text
contains(text, phrase) ==
    <<text, phrase>> \in {<<"quota exceeded", "quota">>,
                          <<"resource_exhausted", "resource_exhausted">>}

\* StatusCode::is_client_error, is_server_error
is_client_error(status) == status >= 400 /\ status <= 499
is_server_error(status) == status >= 500 /\ status <= 599

\* serde_json::from_str over the bodies above, and parse_response of the value.
from_str_ok(body) == body = "{}"

\* send_request, lines 143-175.
send_request(w) ==
    IF w.transport # ""
    THEN ErrResponse(ProviderError("network_error", w.transport, TRUE))
    ELSE IF is_client_error(w.status) \/ is_server_error(w.status)
    THEN LET lowered == to_lowercase(w.body)
         IN  IF w.status = 401 \/ w.status = 403
             THEN ErrResponse(ProviderError("auth_error", w.body, TRUE))
             ELSE IF \/ w.status = 429
                     \/ contains(lowered, "quota")
                     \/ contains(lowered, "resource_exhausted")
             THEN ErrResponse(ProviderError("rate_limit", w.body, TRUE))
             ELSE IF is_server_error(w.status)
             THEN ErrResponse(ProviderError("server_error", w.body, TRUE))
             ELSE ErrResponse(ProviderError("api_error", w.body, FALSE))
    ELSE IF ~from_str_ok(w.body)
    THEN ErrResponse(ProviderError("parse_error", "invalid json", FALSE))
    ELSE OkResponse("", <<>>)

\* Calls of complete whose attempts are answered by the wire.
NextWire ==
    \/ \E request \in RouterRequests : AdapterCall(request)
    \/ \E w \in WireInputs : AdapterAttempt(send_request(w))
    \/ AdapterGiveUp

SpecWire == InitAdapter /\ [][NextWire]_vars

\* The code the precedence of C31 gives a failed attempt, "" for a success.
C31_ExpectedCode(w) ==
    IF w.transport # "" THEN "network_error"
    ELSE IF w.status \in {401, 403} THEN "auth_error"
    ELSE IF w.status = 429 THEN "rate_limit"
    ELSE IF w.status >= 400 /\ w.body \in {"Quota exceeded", "RESOURCE_EXHAUSTED"}
    THEN "rate_limit"
    ELSE IF w.status >= 500 THEN "server_error"
    ELSE IF w.status >= 400 THEN "api_error"
    ELSE IF w.body # "{}" THEN "parse_error"
    ELSE ""

C31_FlagAgrees(resp) ==
    ~resp.ok
    => /\ resp.err.code \in {"auth_error", "rate_limit", "server_error"}
          => resp.err.retryable
       /\ resp.err.code \in {"api_error", "parse_error", "invalid_model"}
          => ~resp.err.retryable

\* The precedence of C31 alone: an attempt answered by w is classified as the
\* first rule that applies to w says.
C31_Precedence ==
    [][\A w \in WireInputs :
          AdapterAttempt(send_request(w))
          => LET out == ad_attempts'[Len(ad_attempts')].out
             IN  /\ out.ok <=> C31_ExpectedCode(w) = ""
                 /\ ~out.ok => out.err.code = C31_ExpectedCode(w)]_vars

\* C31: a failed attempt is classified network_error, auth_error, rate_limit,
\* server_error, api_error, parse_error in that precedence, and every error
\* the adapter produces with code auth_error, rate_limit or server_error is
\* retryable while every api_error, parse_error and invalid_model is not.
C31_Classification ==
    [][/\ \A w \in WireInputs :
             AdapterAttempt(send_request(w))
             => LET out == ad_attempts'[Len(ad_attempts')].out
                IN  /\ out.ok <=> C31_ExpectedCode(w) = ""
                    /\ ~out.ok => out.err.code = C31_ExpectedCode(w)
       /\ \A k \in 1 .. Len(ad_attempts') : C31_FlagAgrees(ad_attempts'[k].out)
       /\ AdapterReturned' => C31_FlagAgrees(ad_result')]_vars

\* ------------------------------------------------------------ TaskStore, persistence mode
\* A faulty variant of RwWriteFree: a writer does not wait for the readers, so
\* the map may change between a save's snapshot and its write of the file.
RwWriteFree_ignores_readers(readers) == TRUE

\* TaskStore::create line 38, TaskStore::update line 53: self.tasks.write() is
\* granted when no thread holds the lock for reading (the writers' own
\* sections are single steps here).
RwWriteFree(readers) == readers = {}

\* save_if_needed, line 102: the values of the map, in no order.
TaskList(map) == {map[k] : k \in DOMAIN map}

\* The create and update calls made on the persisting store, at most.
MaxStoreOps == 3

\* The updates the threads of the persisting store make.
PersistUpdates == {<<"Running", None, None>>, <<"Completed", Some("out"), None>>}

\* TaskStore::create, lines 28-40, by thread t: the id, then the insert under
\* the write lock; save_if_needed is still to come.
PersistCreate(t) ==
    /\ st_pc[t] = "idle"
    /\ Len(st_made) < MaxTasks
    /\ Len(st_made) + st_updates.n < MaxStoreOps
    /\ RwWriteFree(st_rw)
    /\ LET id == next_id(now, COUNTER)
           after == TaskStore_create(st_maps["agent"], id, "job", now)
       IN  /\ st_maps' = [st_maps EXCEPT !["agent"] = after]
           /\ st_made' = Append(st_made, [store |-> "agent", by |-> t, task |-> after[id]])
           /\ st_last' = [NoStoreCall EXCEPT !.op = "create", !.store = "agent", !.id = id,
                                             !.at = now, !.before = st_maps["agent"],
                                             !.ret = <<after[id]>>]
    /\ COUNTER' = FetchAdd(COUNTER)
    /\ st_pc' = [st_pc EXCEPT ![t] = "save"]
    /\ UNCHANGED <<config, system_prompt, router, tools, tasks, now, rawConfig, base,
                   apiVars, pc, execVars, histVars, rotVars, regVars, raceVars,
                   lastRoute, adVars, st_loc, st_updates, concVars, persistVars, served>>

\* TaskStore::update, lines 52-67, by thread t: the update under the write
\* lock; save_if_needed is still to come.
PersistUpdate(t, id, u) ==
    /\ st_pc[t] = "idle"
    /\ st_updates.n < MaxUpdates
    /\ Len(st_made) + st_updates.n < MaxStoreOps
    /\ RwWriteFree(st_rw)
    /\ st_maps' = [st_maps EXCEPT !["agent"] = TaskStore_update(@, id, u[1], u[2], u[3], now)]
    /\ st_last' = [NoStoreCall EXCEPT
                     !.op = "update", !.store = "agent", !.id = id, !.status = u[1],
                     !.output = u[2], !.error = u[3], !.at = now,
                     !.before = st_maps["agent"],
                     !.ret = TaskStore_update_result(st_maps["agent"], id, u[1], u[2],
                                                     u[3], now)]
    /\ st_updates' = [n |-> st_updates.n + 1,
                      ended |-> IF u[1] \in {"Completed", "Failed"}
                                THEN st_updates.ended \cup {<<"agent", id>>}
                                ELSE st_updates.ended]
    /\ st_pc' = [st_pc EXCEPT ![t] = "save"]
    /\ UNCHANGED <<agentVars, apiVars, pc, execVars, histVars, rotVars, regVars, raceVars,
                   lastRoute, adVars, st_loc, st_made, concVars, persistVars, served>>

\* save_if_needed, lines 91-102, by thread t: persist is set and there is a
\* path; the read lock is taken and the tasks are collected.
SaveRead(t) ==
    /\ st_pc[t] = "save"
    /\ st_rw' = st_rw \cup {t}
    /\ st_loc' = [st_loc EXCEPT ![t].list = TaskList(st_maps["agent"])]
    /\ st_pc' = [st_pc EXCEPT ![t] = "write"]
    /\ UNCHANGED <<agentVars, apiVars, pc, execVars, histVars, rotVars, regVars, raceVars,
                   lastRoute, adVars, st_maps, st_made, st_last, st_updates, concVars,
                   st_disk, served>>

\* save_if_needed, lines 103-106, by thread t: the list is serialized and
\* written over the file, and the read lock dropped on return.
SaveWrite(t) ==
    /\ st_pc[t] = "write"
    /\ st_disk' = Some(st_loc[t].list)
    /\ st_rw' = st_rw \ {t}
    /\ st_pc' = [st_pc EXCEPT ![t] = "idle"]
    /\ UNCHANGED <<agentVars, apiVars, pc, execVars, histVars, rotVars, regVars, raceVars,
                   lastRoute, adVars, st_maps, st_loc, st_made, st_last, st_updates,
                   concVars, served>>

\* TaskStore::new(true, Some(path)) shared by the threads; no file yet.
InitPersist ==
    /\ InitAgentIdle
    /\ InitRotatorOff
    /\ InitRegistryCallersOff
    /\ InitRaceOff
    /\ lastRoute = NoRoute
    /\ InitAdapterOff
    /\ InitConcOff
    /\ st_maps = [s \in Stores |-> EmptyMap]
    /\ st_pc = [t \in Threads |-> "idle"]
    /\ st_loc = [t \in Threads |-> [store |-> "agent", count |-> 0, id |-> "", list |-> {}]]
    /\ st_made = <<>>
    /\ st_last = NoStoreCall
    /\ st_updates = [n |-> 0, ended |-> {}]
    /\ st_disk = None
    /\ st_rw = {}
    /\ served = None

NextPersist ==
    \E t \in Threads :
        \/ PersistCreate(t)
        \/ \E id \in KnownIds, u \in PersistUpdates : PersistUpdate(t, id, u)
        \/ SaveRead(t)
        \/ SaveWrite(t)

SpecPersist == InitPersist /\ [][NextPersist]_vars

\* No thread is inside create or update.
StoreQuiet == \A t \in Threads : st_pc[t] = "idle"

\* C32: in persistence mode, whenever no create or update is in progress and
\* one has been made, the file holds exactly the tasks of the map, whatever
\* the interleaving of the calls and of their saves.
C32_DiskMatchesMemory ==
    (StoreQuiet /\ Len(st_made) + st_updates.n > 0)
    => st_disk = Some(TaskList(st_maps["agent"]))

C32_Witness ==
    /\ StoreQuiet
    /\ Len(st_made) = 2
    /\ st_made[1].by # st_made[2].by
    /\ st_updates.n = 1
    /\ st_last.op = "update"
    /\ st_last.status = "Completed"
    /\ IsSome(st_disk)
    /\ Cardinality(Unwrap(st_disk)) = 2
    /\ \E task \in Unwrap(st_disk) : task.status = "Completed"

\* ------------------------------------------------------------ Agent::execute, to its end
\* One caller of Agent::execute whose steps are taken as long as one is
\* possible: every completion and every tool handler returns.
SpecFair == Init /\ [][Next]_vars /\ WF_vars(Next)

\* The execution of p has returned and its result agrees with its task.
C33_ResultAgrees(p) ==
    /\ result[p].task_id = task_id[p]
    /\ IsSome(result[p].task_id) <=> IsSome(tasks)
    /\ IsSome(tasks)
       => /\ Unwrap(result[p].task_id) \in DOMAIN Unwrap(tasks)
          /\ LET task == Unwrap(tasks)[Unwrap(result[p].task_id)]
             IN  /\ task.id = Unwrap(result[p].task_id)
                 /\ task.status \in {"Completed", "Failed"}
                 /\ result[p].success <=> task.status = "Completed"
                 /\ ~result[p].success <=> task.status = "Failed"
                 /\ task.status = "Completed"
                    => task.output = Some(result[p].output) /\ task.error = None
                 /\ task.status = "Failed"
                    => IsSome(task.error) /\ task.output = None

\* C33: every execute call returns; once it has, its task (when a store is
\* attached) is Completed exactly when success is true, with the returned
\* output and no error, and Failed exactly when success is false, with an
\* error text and no output; task_id names that task and is None exactly when
\* there is no store.
C33_TerminalStatusAgrees ==
    /\ [](\A p \in Procs : pc[p] = "x_done" => C33_ResultAgrees(p))
    /\ <>(\A p \in Procs : pc[p] \in {"off", "x_done"})

C33_Witness ==
    /\ pc[1] = "x_done"
    /\ IsSome(tasks)
    /\ result[1].success
    /\ result[1].output = "Done."
    /\ iter[1] >= 1
    /\ TaskIs(1, "Completed", Some("Done."), None)

\* ------------------------------------------------------------ handle_execute, afterwards
\* C34: whenever no request is between taking the agent lock and releasing
\* it, the agent's configuration and system prompt are those Agent::new gave
\* it, whatever overrides the requests served carried and however they ended;
\* and what a request kept aside to restore was that base configuration.
C34_BaseConfigurationKept ==
    /\ (\A p \in Procs : ~InWindow(p))
       => config = base.config /\ system_prompt = base.system_prompt
    /\ \A p \in Procs : saved[p] # NoSaved => saved[p] = base

C34_Witness ==
    /\ pc[1] = "h_done"
    /\ pc[2] = "h_done"
    /\ req[1].provider = Some("codex")
    /\ req[1].temperature = Some(9)
    /\ req[2].system_prompt = Some("Be terse.")
    /\ req[2].model = Some("gemini-3-pro-preview")
    /\ saved[1] # NoSaved
    /\ saved[2] # NoSaved
    /\ ~response[1].success
    /\ response[2].success
    /\ config = base.config
    /\ system_prompt = base.system_prompt

\* ------------------------------------------------------------ handle_tasks
\* A faulty variant of TasksMutexFree: handle_tasks reads the store without
\* waiting for the agent mutex.
TasksMutexFree_unguarded(m) == TRUE

\* handle_tasks, line 44: agent.lock() is granted when no request holds it.
TasksMutexFree(m) == m = 0

\* The limits the /tasks queries carry.
TasksLimits == {None, Some(1)}

\* handle_tasks, lines 39-57: under the agent mutex, the store's list up to
\* the limit (10 when the query has none), or an error without a store; the
\* mutex is released when the handler returns.
HandleTasks(limit) ==
    /\ TasksMutexFree(agentLock)
    /\ IF IsSome(tasks)
       THEN \E q \in TaskStore_list(Unwrap(tasks), UnwrapOr(limit, 10)) :
               served' = Some([tasks |-> q, error |-> None])
       ELSE served' = Some([tasks |-> <<>>, error |-> Some("task store disabled")])
    /\ UNCHANGED <<agentVars, apiVars, pc, execVars, histVars, rotVars, regVars,
                   raceVars, lastRoute, adVars, storeVars, concVars, persistVars>>

\* The /execute requests sent while /tasks is asked for: no overrides.
TasksRequests ==
    {ExecuteRequest("  ", None, None, None, None),
     ExecuteRequest("Add 2 and 2", None, None, None, None)}

\* The server with the default provider, and clients of /execute and /tasks.
InitApiTasks == InitApi /\ rawConfig.provider = ""

NextApiTasks ==
    \/ \E p \in Procs :
          \/ \E r \in TasksRequests : HandleExecuteRecv(p, r)
          \/ HandleExecuteLock(p)
          \/ AgentStart(p)
          \/ \E net \in LeanOutcomes : AgentIterate(p, net)
          \/ AgentExhaust(p)
          \/ HandleExecuteUnlock(p)
    \/ \E limit \in TasksLimits : HandleTasks(limit)

SpecApiTasks == InitApiTasks /\ [][NextApiTasks]_vars

\* C35: every task in a listing handle_tasks served is Completed or Failed,
\* whatever /execute requests were in progress around it.
C35_ListingOnlyTerminal ==
    IsSome(served)
    => \A i \in 1 .. Len(Unwrap(served).tasks) :
          Unwrap(served).tasks[i].status \in {"Completed", "Failed"}

C35_Witness ==
    /\ IsSome(served)
    /\ Len(Unwrap(served).tasks) = 1
    /\ Unwrap(served).tasks[1].status = "Failed"
    /\ \E p \in Procs : pc[p] = "x_loop"
    /\ \E id \in DOMAIN Unwrap(tasks) : Unwrap(tasks)[id].status = "Pending"

\* ------------------------------------------------------------ handle_execute, no instruction
\* The instructions of a request that are empty or only whitespace.
C36_Blank == {"", " ", "  "}

\* C36: a request whose instruction is empty or only whitespace is answered
\* success = false, error "instruction required" in the step that receives
\* it, and that step takes no lock, creates no task, sends no completion
\* request and leaves the agent as it was; nor does any later step act for it.
C36_BlankInstructionRejected ==
    /\ [](\A p \in Procs :
             (pc[p] # "h_idle" /\ req[p].instruction \in C36_Blank)
             => /\ pc[p] = "h_done"
                /\ response[p] = ErrorResponse("instruction required")
                /\ ~response[p].success
                /\ sent[p] = <<>>
                /\ task_id[p] = None
                /\ EventsOf(p, "create") = {}
                /\ saved[p] = NoSaved
                /\ agentLock # p)
    /\ [][\A p \in Procs :
             (pc[p] = "h_idle" /\ pc'[p] # "h_idle" /\ req'[p].instruction \in C36_Blank)
             => /\ pc'[p] = "h_done"
                /\ UNCHANGED <<config, system_prompt, router, tools, tasks, COUNTER,
                               agentLock, saved, sent, taskLog>>]_vars

C36_Witness ==
    /\ pc[1] = "h_done"
    /\ req[1].instruction = "  "
    /\ IsSome(req[1].provider)
    /\ response[1].error = Some("instruction required")
    /\ pc[2] = "x_loop"
    /\ agentLock = 2
    /\ config = base.config

====
